---- MODULE Spec2Model ----
(***************************************************************************)
(* Model of the acquisition/aggregation cycle of src/main.py:              *)
(* main() drives the loop, fetch_and_process_data() fans one fetch_data()  *)
(* task per bracelet out to a ThreadPoolExecutor and collects the results  *)
(* with as_completed(), save_data() persists history and snapshot, and     *)
(* signal_handler() makes the backups and raises SystemExit in the main    *)
(* thread at whatever statement it is executing.                           *)
(***************************************************************************)
EXTENDS Integers, Sequences, FiniteSets, TLC

\* ------------------------------------------------------------------ bounds
MaxCycles == 2

\* ------------------------------------------------------- program constants
TIME_FETCH_SEC == 60
FETCH_INTERVAL_SEC == 5
FIXED_START == 1000
MAX_POOL_WORKERS == 6

\* Optional values: None is the empty tuple, Some(x) a one-element tuple.
None == <<>>
Some(x) == <<x>>
Val(o) == o[1]

NO_DATA_MESSAGE == "No data found for the specified device."
METRIC_KEYS == {"hr", "lf_hf_ratio", "rmssd", "sdrr", "si"}
FILES == {"bracelets", "measurements", "td_data"}
WriteOutcomes == {"ok", "open_failed", "dump_failed"}
Latencies == {1}
CopyFailures == SUBSET FILES
SleepElapsed == 0..(FETCH_INTERVAL_SEC - 1)

Min(a, b) == IF a < b THEN a ELSE b
MinOf(S) == CHOOSE m \in S : \A n \in S : m <= n
MaxOf(S) == CHOOSE m \in S : \A n \in S : n <= m
Range(s) == {s[i] : i \in 1..Len(s)}

\* -------------------------------------------------------------- inputs
\* Registry entries; mac_address "" stands for a missing or empty address.
Entry(mac, name, process) == [mac_address |-> mac, name |-> name, process |-> process]

RegistryFiles ==
    { [ok |-> FALSE, data |-> <<>>],
      [ok |-> TRUE,  data |-> <<Entry("", "ghost", TRUE), Entry("CC", "c", FALSE)>>],
      [ok |-> TRUE,  data |-> <<Entry("AA", "a", TRUE)>>],
      [ok |-> TRUE,  data |-> <<Entry("AA", "a", TRUE), Entry("", "ghost", TRUE),
                                Entry("BB", "b", TRUE), Entry("CC", "c", FALSE)>>] }

\* A measurement already in the history file when the process starts.
OldMeasurement ==
    [session |-> "s1", device_mac |-> "AA", device_name |-> "a", timestamp |-> 1,
     hr |-> 70, lf_hf_ratio |-> 10, rmssd |-> 20, sdrr |-> 30, si |-> 40]

HistoryFiles ==
    { [ok |-> FALSE, data |-> <<>>],
      [ok |-> TRUE,  data |-> <<>>],
      [ok |-> TRUE,  data |-> <<OldMeasurement>>] }

SessionNames == {"", "s1"}

\* A registry with one enabled bracelet more than the pool has workers.
MacOf == <<"AA", "BB", "CC", "DD", "EE", "FF", "GG">>
LargeRegistry ==
    [ok |-> TRUE,
     data |-> [i \in 1..(MAX_POOL_WORKERS + 1) |-> Entry(MacOf[i], "x", TRUE)]]

\* What the remote endpoint does with one request.
Resp(kind, message, hr, lf, rmssd, sdrr, si, time) ==
    [kind |-> kind, message |-> message, hr |-> hr, lf_hf_ratio |-> lf,
     rmssd |-> rmssd, sdrr |-> sdrr, si |-> si, time |-> time]

Responses ==
    { Resp("timeout", "", <<>>, <<>>, <<>>, <<>>, <<>>, <<>>),
      Resp("http_error", "", <<>>, <<>>, <<>>, <<>>, <<>>, <<>>),
      Resp("bad_json", "", <<>>, <<>>, <<>>, <<>>, <<>>, <<>>),
      Resp("not_dict", "", <<>>, <<>>, <<>>, <<>>, <<>>, <<>>),
      Resp("json", NO_DATA_MESSAGE, <<>>, <<>>, <<>>, <<>>, <<>>, <<>>),
      Resp("json", "", <<>>, <<>>, <<>>, <<>>, <<>>, <<1, 2>>),
      Resp("json", "", <<70, 71>>, <<10, 11>>, <<20, 21>>, <<30, 31>>, <<40, 41>>, <<1, 2>>) }

\* Payloads whose arrays differ in length, or miss one array.
RaggedResponses ==
    { Resp("json", "", <<70, 71>>, <<10, 11>>, <<20, 21>>, <<30, 31>>, <<40, 41>>, <<1>>),
      Resp("json", "", <<70>>, <<10, 11>>, <<20, 21>>, <<30, 31>>, <<40, 41>>, <<1, 2>>),
      Resp("json", "", <<>>, <<10, 11>>, <<20, 21>>, <<30, 31>>, <<40, 41>>, <<1, 2>>) }

\* What an endpoint answers during one run: one payload, or either of two.
Endpoints ==
    {e \in SUBSET (Responses \cup RaggedResponses) : Cardinality(e) \in {1, 2}}

\* ------------------------------------------------------------ fetch_data
\* ret: the tuple fetch_data returns, or the exception it lets escape; log: the
\* level of the message it logs about the outcome.  The request-start time of
\* the tuple is never read by the caller and is left out.
Result(raised, ms, req_end, log) ==
    [ret |-> [raised |-> raised, measurements |-> ms, req_end |-> req_end], log |-> log]

handle_fetch_error(end_time) == Result(FALSE, <<>>, end_time, "error")

\* Variant of ZipLen for a strict zip: arrays of different lengths give nothing.
ZipLen_strict(data) ==
    IF {Len(data.hr), Len(data.lf_hf_ratio), Len(data.rmssd),
        Len(data.sdrr), Len(data.si)} = {Len(data.time)}
    THEN Len(data.time) ELSE 0

ZipLen(data) ==
    MinOf({Len(data.hr), Len(data.lf_hf_ratio), Len(data.rmssd),
           Len(data.sdrr), Len(data.si), Len(data.time)})

ZipMeasurements(session_name, bracelet, data) ==
    [i \in 1..ZipLen(data) |->
        [session |-> session_name, device_mac |-> bracelet.mac_address,
         device_name |-> bracelet.name, timestamp |-> data.time[i],
         hr |-> data.hr[i], lf_hf_ratio |-> data.lf_hf_ratio[i],
         rmssd |-> data.rmssd[i], sdrr |-> data.sdrr[i], si |-> data.si[i]]]

\* Variant of fetch_data that hands the sentinel payload to the error handler
\* as a request that got no answer.
fetch_data_sentinel_as_error(session_name, bracelet, resp, now) ==
    IF bracelet.mac_address = "" THEN Result(FALSE, <<>>, None, "warning")
    ELSE IF resp.kind = "timeout" THEN handle_fetch_error(None)
    ELSE IF resp.kind \in {"http_error", "bad_json"} THEN handle_fetch_error(Some(now))
    ELSE IF resp.kind = "not_dict" THEN Result(TRUE, <<>>, None, "none")
    ELSE IF resp.message = NO_DATA_MESSAGE THEN handle_fetch_error(None)
    ELSE IF \A k \in METRIC_KEYS : resp[k] = <<>> THEN Result(FALSE, <<>>, Some(now), "warning")
    ELSE Result(FALSE, ZipMeasurements(session_name, bracelet, resp), Some(now), "info")

fetch_data(session_name, bracelet, resp, now) ==
    IF bracelet.mac_address = "" THEN Result(FALSE, <<>>, None, "warning")
    ELSE IF resp.kind = "timeout" THEN handle_fetch_error(None)
    ELSE IF resp.kind \in {"http_error", "bad_json"} THEN handle_fetch_error(Some(now))
    ELSE IF resp.kind = "not_dict" THEN Result(TRUE, <<>>, None, "none")
    ELSE IF resp.message = NO_DATA_MESSAGE THEN Result(FALSE, <<>>, Some(now), "info")
    ELSE IF \A k \in METRIC_KEYS : resp[k] = <<>> THEN Result(FALSE, <<>>, Some(now), "warning")
    ELSE Result(FALSE, ZipMeasurements(session_name, bracelet, resp), Some(now), "info")

\* -------------------------------------------------------- load_bracelets
\* Variant of Dispatchable that does not look at the address.
Dispatchable_process_only(b) == b.process = TRUE

Dispatchable(b) == b.mac_address # "" /\ b.process = TRUE

\* Variant of load_bracelets that returns the registry as read.
load_bracelets_unfiltered(file) == file.data

load_bracelets(file) == SelectSeq(file.data, Dispatchable)

\* ------------------------------------------------------------------ state
VARIABLES
    pc,                 \* statement the main thread is at
    exc,                \* exception unwinding the main thread: "none", "SystemExit", "OSError"
    exit_code,          \* None while the process runs, Some(status) once it has exited
    clock,              \* wall-clock time
    session_name,       \* --session_name argument
    USE_FIXED_START,    \* configuration switch of the window mode
    bracelets_file, measurements_file, td_data_file,   \* the three artifacts on disk
    endpoint,           \* what the remote endpoint can answer to a request in this run
    bracelets,          \* registry loaded by main
    history,            \* in-memory history list of main
    current_start,      \* main's current_start (None in relative mode)
    cycle,              \* number of the cycle in progress
    executor,           \* "none", "open" or "shutdown"
    pool,               \* work items (futures) submitted to the executor
    submitted,          \* how many bracelets the dispatch comprehension has visited
    ready,              \* futures as_completed will yield next, in order
    pending,            \* futures as_completed has not yielded yet
    start_time, end_time,                       \* window of the cycle
    all_measurements, td_data, last_received,   \* locals of fetch_and_process_data
    new_measurements,   \* main's new_measurements
    sigint,             \* None, or Some(time at which SIGINT was delivered)
    backup,             \* None, or Some(what backup_files did)
    call,               \* None, or Some(function of a display tool called, with its arguments)
    returned            \* None, or Some(what that call returned or raised)

vars == <<pc, exc, exit_code, clock, session_name, USE_FIXED_START, bracelets_file,
          endpoint, measurements_file, td_data_file, bracelets, history, current_start, cycle,
          executor, pool, submitted, ready, pending, start_time, end_time,
          all_measurements, td_data, last_received, new_measurements, sigint, backup,
          call, returned>>

\* What a run of the collector never changes: its configuration, and the
\* state of the display tools of the repository.
config == <<session_name, USE_FIXED_START, bracelets_file, endpoint, call, returned>>
files == <<measurements_file, td_data_file>>
locals == <<submitted, ready, pending, start_time, end_time, all_measurements,
            td_data, last_received, new_measurements>>
signal == <<sigint, backup>>

Init ==
    /\ pc = "main"
    /\ new_measurements = <<>>
    /\ exc = "none"
    /\ exit_code = None
    /\ clock = 0
    /\ session_name \in SessionNames
    /\ USE_FIXED_START \in BOOLEAN
    /\ bracelets_file \in RegistryFiles
    /\ endpoint = Responses
    /\ measurements_file \in HistoryFiles
    /\ td_data_file = [ok |-> TRUE, data |-> <<>>]
    /\ bracelets = <<>>
    /\ history = <<>>
    /\ current_start = None
    /\ cycle = 0
    /\ executor = "none"
    /\ pool = {}
    /\ submitted = 0
    /\ ready = <<>>
    /\ pending = {}
    /\ start_time = None
    /\ end_time = None
    /\ all_measurements = <<>>
    /\ td_data = <<>>
    /\ last_received = None
    /\ sigint = None
    /\ backup = None
    /\ call = None
    /\ returned = None

\* ------------------------------------------------------------- the pool
Item(c, i, st, result) == [cycle |-> c, idx |-> i, st |-> st, result |-> result]

max_workers == Min(Len(bracelets), MAX_POOL_WORKERS)

Running == {w \in pool : w.st = "running"}
Active == {w \in pool : w.st \in {"queued", "running"}}
Finished == {w \in pool : w.st = "done"}

\* The future the cycle's futures dict holds for bracelet i.
FutureOf(i) == CHOOSE w \in pool : w.cycle = cycle /\ w.idx = i

Perms(S) == {p \in [1..Cardinality(S) -> S] : \A a \in S : \E k \in 1..Cardinality(S) : p[k] = a}

\* ----------------------------------------------------------- backup_files
\* Variant of backup_files that gives up at the first copy that fails.
backup_files_stop_at_failure(failed) ==
    LET order == <<"bracelets", "measurements", "td_data">>
        upto == IF \E i \in 1..3 : order[i] \in failed
                THEN MinOf({i \in 1..3 : order[i] \in failed})
                ELSE 3
    IN [timestamp |-> clock,
        attempted |-> {order[i] : i \in 1..upto},
        copies |-> [f \in {order[i] : i \in 1..upto} \ failed |->
                       CASE f = "bracelets" -> bracelets_file
                         [] f = "measurements" -> measurements_file
                         [] f = "td_data" -> td_data_file]]

\* One copy attempt per artifact; the copies in `failed` raise OSError.
backup_files(failed) ==
    [timestamp |-> clock,
     attempted |-> FILES,
     copies |-> [f \in FILES \ failed |->
                    CASE f = "bracelets" -> bracelets_file
                      [] f = "measurements" -> measurements_file
                      [] f = "td_data" -> td_data_file]]

\* ------------------------------------------------------------------ main
\* main() up to the creation of the pool.
Startup ==
    /\ pc = "main"
    /\ IF \/ session_name = ""
          \/ ~bracelets_file.ok
          \/ load_bracelets(bracelets_file) = <<>>
       THEN /\ pc' = "exited"
            /\ exit_code' = Some(1)
            /\ UNCHANGED <<bracelets, history, current_start, cycle, executor>>
       ELSE /\ bracelets' = load_bracelets(bracelets_file)
            /\ current_start' = IF USE_FIXED_START THEN Some(FIXED_START) ELSE None
            /\ history' = IF measurements_file.ok THEN measurements_file.data ELSE <<>>
            /\ executor' = "open"
            /\ cycle' = 1
            /\ pc' = "window"
            /\ UNCHANGED exit_code
    /\ UNCHANGED <<exc, clock, config, files, pool, locals, signal>>

\* Variant of ComputeWindow whose relative window spans the polling interval.
ComputeWindow_wrong_span ==
    /\ pc = "window"
    /\ all_measurements' = <<>>
    /\ td_data' = <<>>
    /\ last_received' = None
    /\ IF current_start # None
       THEN /\ start_time' = current_start
            /\ end_time' = Some(Val(current_start) + TIME_FETCH_SEC)
       ELSE /\ start_time' = Some(clock - FETCH_INTERVAL_SEC)
            /\ end_time' = Some(clock)
    /\ submitted' = 0
    /\ pc' = "dispatch"
    /\ UNCHANGED <<exc, exit_code, clock, config, files, bracelets, history, current_start,
                   cycle, executor, pool, ready, pending, new_measurements, signal>>

\* Variant of ComputeWindow that takes current_start as the previous start.
ComputeWindow_advance_first ==
    /\ pc = "window"
    /\ all_measurements' = <<>>
    /\ td_data' = <<>>
    /\ last_received' = None
    /\ IF current_start # None
       THEN /\ start_time' = Some(Val(current_start) + TIME_FETCH_SEC)
            /\ end_time' = Some(Val(current_start) + TIME_FETCH_SEC + TIME_FETCH_SEC)
       ELSE /\ start_time' = Some(clock - TIME_FETCH_SEC)
            /\ end_time' = Some(clock)
    /\ submitted' = 0
    /\ pc' = "dispatch"
    /\ UNCHANGED <<exc, exit_code, clock, config, files, bracelets, history, current_start,
                   cycle, executor, pool, ready, pending, new_measurements, signal>>

\* fetch_and_process_data: the window of the cycle.
ComputeWindow ==
    /\ pc = "window"
    /\ all_measurements' = <<>>
    /\ td_data' = <<>>
    /\ last_received' = None
    /\ IF current_start # None
       THEN /\ start_time' = current_start
            /\ end_time' = Some(Val(current_start) + TIME_FETCH_SEC)
       ELSE /\ start_time' = Some(clock - TIME_FETCH_SEC)
            /\ end_time' = Some(clock)
    /\ submitted' = 0
    /\ pc' = "dispatch"
    /\ UNCHANGED <<exc, exit_code, clock, config, files, bracelets, history, current_start,
                   cycle, executor, pool, ready, pending, new_measurements, signal>>

\* fetch_and_process_data: one step of the comprehension that submits the tasks.
Submit ==
    /\ pc = "dispatch"
    /\ submitted < Len(bracelets)
    /\ submitted' = submitted + 1
    /\ pool' = IF Dispatchable(bracelets[submitted + 1])
               THEN pool \cup {Item(cycle, submitted + 1, "queued", None)}
               ELSE pool
    /\ pc' = IF submitted' = Len(bracelets) THEN "as_completed" ELSE "dispatch"
    /\ UNCHANGED <<exc, exit_code, clock, config, files, bracelets, history, current_start,
                   cycle, executor, ready, pending, start_time, end_time, all_measurements,
                   td_data, last_received, new_measurements, signal>>

\* as_completed(futures): the futures already finished are yielded first, in
\* the iteration order of a set; the others in the order they finish.
AsCompleted ==
    /\ pc = "as_completed"
    /\ LET futures == {i \in 1..Len(bracelets) : Dispatchable(bracelets[i])}
           finished == {i \in futures : FutureOf(i).st = "done"}
       IN /\ pending' = futures
          /\ \E p \in Perms(finished) : ready' = p
          /\ pc' = IF futures = {} THEN "return" ELSE "collect"
    /\ UNCHANGED <<exc, exit_code, clock, config, files, bracelets, history, current_start,
                   cycle, executor, pool, submitted, start_time, end_time, all_measurements,
                   td_data, last_received, new_measurements, signal>>

\* Variant of Collect that leaves the loop after the first future.
Collect_first_only ==
    /\ pc = "collect"
    /\ ready # <<>>
    /\ LET f == FutureOf(Head(ready))
           r == Val(f.result)
       IN /\ IF r.raised
             THEN UNCHANGED <<all_measurements, td_data, last_received>>
             ELSE /\ all_measurements' = all_measurements \o r.measurements
                  /\ td_data' = td_data \o r.measurements
                  /\ last_received' =
                        IF r.req_end # None /\ (last_received = None
                                                \/ Val(r.req_end) > Val(last_received))
                        THEN r.req_end ELSE last_received
          /\ pool' = (pool \ {f}) \cup {Item(f.cycle, f.idx, "collected", f.result)}
          /\ pending' = pending \ {f.idx}
          /\ ready' = Tail(ready)
          /\ pc' = "return"
    /\ UNCHANGED <<exc, exit_code, clock, config, files, bracelets, history, current_start,
                   cycle, executor, submitted, start_time, end_time, new_measurements, signal>>

\* Variant of Collect without the try/except around future.result(): the
\* exception of a task escapes from fetch_and_process_data.
Collect_propagate ==
    /\ pc = "collect"
    /\ ready # <<>>
    /\ LET f == FutureOf(Head(ready))
           r == Val(f.result)
       IN /\ IF r.raised
             THEN /\ pc' = "finally"
                  /\ exc' = "Exception"
                  /\ UNCHANGED <<all_measurements, td_data, last_received>>
             ELSE /\ all_measurements' = all_measurements \o r.measurements
                  /\ td_data' = td_data \o r.measurements
                  /\ last_received' =
                        IF r.req_end # None /\ (last_received = None
                                                \/ Val(r.req_end) > Val(last_received))
                        THEN r.req_end ELSE last_received
                  /\ pc' = IF pending \ {f.idx} = {} THEN "return" ELSE "collect"
                  /\ UNCHANGED exc
          /\ pool' = (pool \ {f}) \cup {Item(f.cycle, f.idx, "collected", f.result)}
          /\ pending' = pending \ {f.idx}
          /\ ready' = Tail(ready)
    /\ UNCHANGED <<exit_code, clock, config, files, bracelets, history, current_start,
                   cycle, executor, submitted, start_time, end_time, new_measurements, signal>>

\* Variant of Collect that keeps the blocks in the order of submission.
Collect_submission_order ==
    /\ pc = "collect"
    /\ ready # <<>>
    /\ LET f == FutureOf(Head(ready))
           r == Val(f.result)
           earlier == {bracelets[j].mac_address : j \in 1..(f.idx - 1)}
           Before(m) == m.device_mac \in earlier
           After(m) == m.device_mac \notin earlier
       IN /\ IF r.raised
             THEN UNCHANGED <<all_measurements, td_data, last_received>>
             ELSE /\ all_measurements' = SelectSeq(all_measurements, Before) \o r.measurements
                                          \o SelectSeq(all_measurements, After)
                  /\ td_data' = SelectSeq(td_data, Before) \o r.measurements
                                  \o SelectSeq(td_data, After)
                  /\ last_received' =
                        IF r.req_end # None /\ (last_received = None
                                                \/ Val(r.req_end) > Val(last_received))
                        THEN r.req_end ELSE last_received
          /\ pool' = (pool \ {f}) \cup {Item(f.cycle, f.idx, "collected", f.result)}
          /\ pending' = pending \ {f.idx}
          /\ ready' = Tail(ready)
          /\ pc' = IF pending' = {} THEN "return" ELSE "collect"
    /\ UNCHANGED <<exc, exit_code, clock, config, files, bracelets, history, current_start,
                   cycle, executor, submitted, start_time, end_time, new_measurements, signal>>

\* Variant of Collect that appends each result to the history as it arrives.
Collect_extend_history ==
    /\ pc = "collect"
    /\ ready # <<>>
    /\ LET f == FutureOf(Head(ready))
           r == Val(f.result)
       IN /\ IF r.raised
             THEN UNCHANGED <<all_measurements, td_data, last_received, history>>
             ELSE /\ all_measurements' = all_measurements \o r.measurements
                  /\ td_data' = td_data \o r.measurements
                  /\ history' = history \o r.measurements
                  /\ last_received' =
                        IF r.req_end # None /\ (last_received = None
                                                \/ Val(r.req_end) > Val(last_received))
                        THEN r.req_end ELSE last_received
          /\ pool' = (pool \ {f}) \cup {Item(f.cycle, f.idx, "collected", f.result)}
          /\ pending' = pending \ {f.idx}
          /\ ready' = Tail(ready)
          /\ pc' = IF pending' = {} THEN "return" ELSE "collect"
    /\ UNCHANGED <<exc, exit_code, clock, config, files, bracelets, current_start,
                   cycle, executor, submitted, start_time, end_time, new_measurements, signal>>

\* Variant of Collect that takes the request-end time of the future it was
\* given last, without comparing.
Collect_last_wins ==
    /\ pc = "collect"
    /\ ready # <<>>
    /\ LET f == FutureOf(Head(ready))
           r == Val(f.result)
       IN /\ IF r.raised
             THEN UNCHANGED <<all_measurements, td_data, last_received>>
             ELSE /\ all_measurements' = all_measurements \o r.measurements
                  /\ td_data' = td_data \o r.measurements
                  /\ last_received' = IF r.req_end # None THEN r.req_end ELSE last_received
          /\ pool' = (pool \ {f}) \cup {Item(f.cycle, f.idx, "collected", f.result)}
          /\ pending' = pending \ {f.idx}
          /\ ready' = Tail(ready)
          /\ pc' = IF pending' = {} THEN "return" ELSE "collect"
    /\ UNCHANGED <<exc, exit_code, clock, config, files, bracelets, history, current_start,
                   cycle, executor, submitted, start_time, end_time, new_measurements, signal>>

\* Variant of Collect that keeps in td_data the last measurement of each result.
Collect_last_per_device ==
    /\ pc = "collect"
    /\ ready # <<>>
    /\ LET f == FutureOf(Head(ready))
           r == Val(f.result)
       IN /\ IF r.raised
             THEN UNCHANGED <<all_measurements, td_data, last_received>>
             ELSE /\ all_measurements' = all_measurements \o r.measurements
                  /\ td_data' = td_data \o (IF r.measurements = <<>> THEN <<>>
                                              ELSE <<r.measurements[Len(r.measurements)]>>)
                  /\ last_received' =
                        IF r.req_end # None /\ (last_received = None
                                                \/ Val(r.req_end) > Val(last_received))
                        THEN r.req_end ELSE last_received
          /\ pool' = (pool \ {f}) \cup {Item(f.cycle, f.idx, "collected", f.result)}
          /\ pending' = pending \ {f.idx}
          /\ ready' = Tail(ready)
          /\ pc' = IF pending' = {} THEN "return" ELSE "collect"
    /\ UNCHANGED <<exc, exit_code, clock, config, files, bracelets, history, current_start,
                   cycle, executor, submitted, start_time, end_time, new_measurements, signal>>

\* Body of the as_completed loop for the next future it yields.
Collect ==
    /\ pc = "collect"
    /\ ready # <<>>
    /\ LET f == FutureOf(Head(ready))
           r == Val(f.result)
       IN /\ IF r.raised
             THEN UNCHANGED <<all_measurements, td_data, last_received>>
             ELSE /\ all_measurements' = all_measurements \o r.measurements
                  /\ td_data' = td_data \o r.measurements
                  /\ last_received' =
                        IF r.req_end # None /\ (last_received = None
                                                \/ Val(r.req_end) > Val(last_received))
                        THEN r.req_end ELSE last_received
          /\ pool' = (pool \ {f}) \cup {Item(f.cycle, f.idx, "collected", f.result)}
          /\ pending' = pending \ {f.idx}
          /\ ready' = Tail(ready)
          /\ pc' = IF pending' = {} THEN "return" ELSE "collect"
    /\ UNCHANGED <<exc, exit_code, clock, config, files, bracelets, history, current_start,
                   cycle, executor, submitted, start_time, end_time, new_measurements, signal>>

\* Variant of Return without the fallback to the end of the window.
Return_no_fallback ==
    /\ pc = "return"
    /\ last_received' = last_received
    /\ new_measurements' = all_measurements
    /\ pool' = {w \in pool : w.st # "collected"}
    /\ pc' = "save_extend"
    /\ UNCHANGED <<exc, exit_code, clock, config, files, bracelets, history, current_start,
                   cycle, executor, submitted, ready, pending, start_time, end_time,
                   all_measurements, td_data, signal>>

\* fetch_and_process_data after the loop, and the assignment of its result in
\* main; the futures dict, and with it the collected futures, is dropped.
Return ==
    /\ pc = "return"
    /\ last_received' = IF last_received = None THEN end_time ELSE last_received
    /\ new_measurements' = all_measurements
    /\ pool' = {w \in pool : w.st # "collected"}
    /\ pc' = "save_extend"
    /\ UNCHANGED <<exc, exit_code, clock, config, files, bracelets, history, current_start,
                   cycle, executor, submitted, ready, pending, start_time, end_time,
                   all_measurements, td_data, signal>>

\* An exception leaving fetch_and_process_data or save_data discards their
\* frames, the generator of as_completed and the futures dict; the work items
\* the executor still holds, and the results they produce, stay.
Unwind ==
    /\ submitted' = 0
    /\ ready' = <<>>
    /\ pending' = {}
    /\ start_time' = None
    /\ end_time' = None
    /\ all_measurements' = <<>>
    /\ td_data' = <<>>
    /\ last_received' = None
    /\ new_measurements' = <<>>
    /\ pool' = {w \in pool : w.st # "collected"}

\* Variant of ExtendHistory that skips the entries the history already holds.
ExtendHistory_dedup ==
    /\ pc = "save_extend"
    /\ IF new_measurements # <<>>
       THEN /\ history' = history \o SelectSeq(new_measurements,
                                                LAMBDA m : m \notin Range(history))
            /\ pc' = "save_history"
       ELSE /\ UNCHANGED history
            /\ pc' = "save_td"
    /\ UNCHANGED <<exc, exit_code, clock, config, files, bracelets, current_start, cycle,
                   executor, pool, locals, signal>>

\* save_data: history.extend(new_measurements).
ExtendHistory ==
    /\ pc = "save_extend"
    /\ IF new_measurements # <<>>
       THEN /\ history' = history \o new_measurements
            /\ pc' = "save_history"
       ELSE /\ UNCHANGED history
            /\ pc' = "save_td"
    /\ UNCHANGED <<exc, exit_code, clock, config, files, bracelets, current_start, cycle,
                   executor, pool, locals, signal>>

\* What a rewrite of a file leaves on disk.
Written(old, data, outcome) ==
    CASE outcome = "ok" -> [ok |-> TRUE, data |-> data]
      [] outcome = "open_failed" -> old
      [] outcome = "dump_failed" -> [ok |-> FALSE, data |-> <<>>]

\* Variant of WriteHistory that writes the measurements of the cycle only.
WriteHistory_new_only ==
    /\ pc = "save_history"
    /\ \E outcome \in WriteOutcomes :
          /\ measurements_file' = Written(measurements_file, new_measurements, outcome)
          /\ IF outcome = "ok"
             THEN pc' = "save_td" /\ UNCHANGED <<exc, pool, locals>>
             ELSE pc' = "finally" /\ exc' = "OSError" /\ Unwind
    /\ UNCHANGED <<exit_code, clock, config, td_data_file, bracelets, history, current_start,
                   cycle, executor, signal>>

\* save_data: rewrite of MEASUREMENTS_FILE with the whole history.
WriteHistory ==
    /\ pc = "save_history"
    /\ \E outcome \in WriteOutcomes :
          /\ measurements_file' = Written(measurements_file, history, outcome)
          /\ IF outcome = "ok"
             THEN pc' = "save_td" /\ UNCHANGED <<exc, pool, locals>>
             ELSE pc' = "finally" /\ exc' = "OSError" /\ Unwind
    /\ UNCHANGED <<exit_code, clock, config, td_data_file, bracelets, history, current_start,
                   cycle, executor, signal>>

\* Variant of WriteSnapshot that merges the snapshot into the one on disk.
WriteSnapshot_merge ==
    /\ pc = "save_td"
    /\ \E outcome \in WriteOutcomes :
          /\ td_data_file' = Written(td_data_file, td_data_file.data \o td_data, outcome)
          /\ IF outcome = "ok"
             THEN pc' = "advance" /\ UNCHANGED <<exc, pool, locals>>
             ELSE pc' = "finally" /\ exc' = "OSError" /\ Unwind
    /\ UNCHANGED <<exit_code, clock, config, measurements_file, bracelets, history,
                   current_start, cycle, executor, signal>>

\* save_data: rewrite of TD_DATA_FILE with the snapshot of the cycle.
WriteSnapshot ==
    /\ pc = "save_td"
    /\ \E outcome \in WriteOutcomes :
          /\ td_data_file' = Written(td_data_file, td_data, outcome)
          /\ IF outcome = "ok"
             THEN pc' = "advance" /\ UNCHANGED <<exc, pool, locals>>
             ELSE pc' = "finally" /\ exc' = "OSError" /\ Unwind
    /\ UNCHANGED <<exit_code, clock, config, measurements_file, bracelets, history,
                   current_start, cycle, executor, signal>>

\* Variant of Advance that leaves current_start where it is.
Advance_skip ==
    /\ pc = "advance"
    /\ current_start' = current_start
    /\ pc' = "sleep"
    /\ UNCHANGED <<exc, exit_code, clock, config, files, bracelets, history, cycle,
                   executor, pool, locals, signal>>

\* main: end of the cycle, the fixed window advances.
Advance ==
    /\ pc = "advance"
    /\ current_start' = IF USE_FIXED_START /\ current_start # None
                        THEN Some(Val(current_start) + TIME_FETCH_SEC)
                        ELSE current_start
    /\ pc' = "sleep"
    /\ UNCHANGED <<exc, exit_code, clock, config, files, bracelets, history, cycle,
                   executor, pool, locals, signal>>

\* main: time.sleep(FETCH_INTERVAL_SEC) runs to its end and the next cycle begins.
Sleep ==
    /\ pc = "sleep"
    /\ cycle < MaxCycles
    /\ clock' = clock + FETCH_INTERVAL_SEC
    /\ cycle' = cycle + 1
    /\ pc' = "window"
    /\ UNCHANGED <<exc, exit_code, config, files, bracelets, history, current_start,
                   executor, pool, locals, signal>>

\* ------------------------------------------------------- worker threads
\* Variant of TaskStart for a pool that starts a thread for every work item.
TaskStart_unbounded ==
    /\ exit_code = None
    /\ \E w \in pool :
          /\ w.st = "queued"
          /\ pool' = (pool \ {w}) \cup {Item(w.cycle, w.idx, "running", None)}
    /\ UNCHANGED <<pc, exc, exit_code, clock, config, files, bracelets, history,
                   current_start, cycle, executor, locals, signal>>

\* An idle worker takes a queued work item.
TaskStart ==
    /\ exit_code = None
    /\ \E w \in pool :
          /\ w.st = "queued"
          /\ Cardinality(Running) < max_workers
          /\ pool' = (pool \ {w}) \cup {Item(w.cycle, w.idx, "running", None)}
    /\ UNCHANGED <<pc, exc, exit_code, clock, config, files, bracelets, history,
                   current_start, cycle, executor, locals, signal>>

\* Variant of TaskFinish that puts a request that timed out back in the queue.
TaskFinish_retry ==
    /\ exit_code = None
    /\ \E w \in pool, resp \in endpoint, d \in Latencies :
          /\ w.st = "running"
          /\ IF resp.kind = "timeout"
             THEN /\ pool' = (pool \ {w}) \cup {Item(w.cycle, w.idx, "queued", None)}
                  /\ UNCHANGED <<clock, ready>>
             ELSE /\ clock' = clock + d
                  /\ pool' = (pool \ {w}) \cup
                        {Item(w.cycle, w.idx, "done",
                              Some(fetch_data(session_name, bracelets[w.idx], resp, clock').ret))}
                  /\ ready' = IF pc = "collect" /\ w.cycle = cycle /\ w.idx \in pending
                              THEN Append(ready, w.idx) ELSE ready
    /\ UNCHANGED <<pc, exc, exit_code, config, files, bracelets, history, current_start,
                   cycle, executor, submitted, pending, start_time, end_time,
                   all_measurements, td_data, last_received, new_measurements, signal>>

\* A running fetch_data call ends: the response arrives or the request fails.
TaskFinish ==
    /\ exit_code = None
    /\ \E w \in pool, resp \in endpoint, d \in Latencies :
          /\ w.st = "running"
          /\ clock' = clock + d
          /\ pool' = (pool \ {w}) \cup
                {Item(w.cycle, w.idx, "done",
                      Some(fetch_data(session_name, bracelets[w.idx], resp, clock').ret))}
          /\ ready' = IF pc = "collect" /\ w.cycle = cycle /\ w.idx \in pending
                      THEN Append(ready, w.idx) ELSE ready
    /\ UNCHANGED <<pc, exc, exit_code, config, files, bracelets, history, current_start,
                   cycle, executor, submitted, pending, start_time, end_time,
                   all_measurements, td_data, last_received, new_measurements, signal>>

\* ------------------------------------------------------------- shutdown
InLoop == pc \in {"window", "dispatch", "as_completed", "collect", "return", "save_extend",
                  "save_history", "save_td", "advance", "sleep"}

\* Variant of signal_handler in which an interrupted sleep is resumed and the
\* handler acts when the interval is over.
signal_handler_after_sleep ==
    /\ sigint = None
    /\ exit_code = None
    /\ \E d \in (IF pc = "sleep" THEN {FETCH_INTERVAL_SEC} ELSE {0}), failed \in CopyFailures :
          /\ clock' = clock + d
          /\ sigint' = Some([time |-> clock', at |-> pc])
          /\ backup' = Some([backup_files(failed) EXCEPT !.timestamp = clock'])
    /\ exc' = "SystemExit"
    /\ pc' = IF InLoop THEN "finally" ELSE "finalize"
    /\ Unwind
    /\ UNCHANGED <<exit_code, config, files, bracelets, history, current_start, cycle,
                   executor>>

\* Variant of signal_handler that exits without making the backups.
signal_handler_exit_first ==
    /\ sigint = None
    /\ exit_code = None
    /\ \E d \in (IF pc = "sleep" THEN SleepElapsed ELSE {0}), failed \in CopyFailures :
          /\ clock' = clock + d
          /\ sigint' = Some([time |-> clock', at |-> pc])
          /\ failed \in CopyFailures
          /\ backup' = backup
    /\ exc' = "SystemExit"
    /\ pc' = IF InLoop THEN "finally" ELSE "finalize"
    /\ Unwind
    /\ UNCHANGED <<exit_code, config, files, bracelets, history, current_start, cycle,
                   executor>>

\* Variant of signal_handler that makes the backups and returns: the main
\* thread goes on where it was.
signal_handler_no_exit ==
    /\ sigint = None
    /\ exit_code = None
    /\ \E d \in (IF pc = "sleep" THEN SleepElapsed ELSE {0}), failed \in CopyFailures :
          /\ clock' = clock + d
          /\ sigint' = Some([time |-> clock', at |-> pc])
          /\ backup' = Some([backup_files(failed) EXCEPT !.timestamp = clock'])
    /\ UNCHANGED <<pc, exc, exit_code, config, files, bracelets, history, current_start,
                   cycle, executor, pool, locals>>

\* SIGINT: signal_handler runs in the main thread between two of its
\* statements, makes the backups and raises SystemExit(0) there.
signal_handler ==
    /\ sigint = None
    /\ exit_code = None
    /\ \E d \in (IF pc = "sleep" THEN SleepElapsed ELSE {0}), failed \in CopyFailures :
          /\ clock' = clock + d
          /\ sigint' = Some([time |-> clock', at |-> pc])
          /\ backup' = Some([backup_files(failed) EXCEPT !.timestamp = clock'])
    /\ exc' = "SystemExit"
    /\ pc' = IF InLoop THEN "finally" ELSE "finalize"
    /\ Unwind
    /\ UNCHANGED <<exit_code, config, files, bracelets, history, current_start, cycle,
                   executor>>

\* main: the finally clause calls executor.shutdown(wait=True).
Finally ==
    /\ pc = "finally"
    /\ executor' = "shutdown"
    /\ pc' = "shutdown_wait"
    /\ UNCHANGED <<exc, exit_code, clock, config, files, bracelets, history, current_start,
                   cycle, pool, locals, signal>>

\* Variant of ShutdownWait for executor.shutdown(wait=False): it returns at once.
ShutdownWait_nowait ==
    /\ pc = "shutdown_wait"
    /\ IF exc = "SystemExit"
       THEN pc' = "exited" /\ exit_code' = Some(0)
       ELSE pc' = "fatal" /\ UNCHANGED exit_code
    /\ UNCHANGED <<exc, clock, config, files, bracelets, history, current_start, cycle,
                   executor, pool, locals, signal>>

\* executor.shutdown(wait=True) returns once every work item has run; the
\* exception then leaves main.
ShutdownWait ==
    /\ pc = "shutdown_wait"
    /\ Active = {}
    /\ IF exc = "SystemExit"
       THEN pc' = "exited" /\ exit_code' = Some(0)
       ELSE pc' = "fatal" /\ UNCHANGED exit_code
    /\ UNCHANGED <<exc, clock, config, files, bracelets, history, current_start, cycle,
                   executor, pool, locals, signal>>

\* __main__: except Exception: backup_files(); sys.exit(1).
Fatal ==
    /\ pc = "fatal"
    /\ \E failed \in CopyFailures : backup' = Some(backup_files(failed))
    /\ pc' = "exited"
    /\ exit_code' = Some(1)
    /\ UNCHANGED <<exc, clock, config, files, bracelets, history, current_start, cycle,
                   executor, pool, locals, sigint>>

\* SystemExit(0) raised outside the try block of main: the interpreter joins
\* the worker threads, then the process ends.
Finalize ==
    /\ pc = "finalize"
    /\ Active = {}
    /\ pc' = "exited"
    /\ exit_code' = Some(0)
    /\ UNCHANGED <<exc, clock, config, files, bracelets, history, current_start, cycle,
                   executor, pool, locals, signal>>

Next ==
    \/ Startup
    \/ ComputeWindow
    \/ Submit
    \/ AsCompleted
    \/ Collect
    \/ Return
    \/ ExtendHistory
    \/ WriteHistory
    \/ WriteSnapshot
    \/ Advance
    \/ Sleep
    \/ TaskStart
    \/ TaskFinish
    \/ signal_handler
    \/ Finally
    \/ ShutdownWait
    \/ Fatal
    \/ Finalize

Spec == Init /\ [][Next]_vars

\* One dispatch over the large registry while the endpoint is unreachable:
\* every request times out.
InitPool ==
    /\ pc = "main"
    /\ new_measurements = <<>>
    /\ exc = "none"
    /\ exit_code = None
    /\ clock = 0
    /\ session_name = "s1"
    /\ USE_FIXED_START = FALSE
    /\ bracelets_file = LargeRegistry
    /\ endpoint = {r \in Responses : r.kind = "timeout"}
    /\ measurements_file = [ok |-> TRUE, data |-> <<>>]
    /\ td_data_file = [ok |-> TRUE, data |-> <<>>]
    /\ bracelets = <<>>
    /\ history = <<>>
    /\ current_start = None
    /\ cycle = 0
    /\ executor = "none"
    /\ pool = {}
    /\ submitted = 0
    /\ ready = <<>>
    /\ pending = {}
    /\ start_time = None
    /\ end_time = None
    /\ all_measurements = <<>>
    /\ td_data = <<>>
    /\ last_received = None
    /\ sigint = None
    /\ backup = None
    /\ call = None
    /\ returned = None

NextPool ==
    \/ Startup
    \/ ComputeWindow
    \/ Submit
    \/ AsCompleted
    \/ Collect
    \/ Return
    \/ TaskStart
    \/ TaskFinish

SpecPool == InitPool /\ [][NextPool]_vars

\* One cycle over two enabled bracelets against each endpoint of Endpoints.
InitFetch ==
    /\ pc = "main"
    /\ new_measurements = <<>>
    /\ exc = "none"
    /\ exit_code = None
    /\ clock = 0
    /\ session_name = "s1"
    /\ USE_FIXED_START = FALSE
    /\ bracelets_file = [ok |-> TRUE,
                         data |-> <<Entry("AA", "a", TRUE), Entry("BB", "b", TRUE)>>]
    /\ endpoint \in Endpoints
    /\ measurements_file = [ok |-> TRUE, data |-> <<>>]
    /\ td_data_file = [ok |-> TRUE, data |-> <<>>]
    /\ bracelets = <<>>
    /\ history = <<>>
    /\ current_start = None
    /\ cycle = 0
    /\ executor = "none"
    /\ pool = {}
    /\ submitted = 0
    /\ ready = <<>>
    /\ pending = {}
    /\ start_time = None
    /\ end_time = None
    /\ all_measurements = <<>>
    /\ td_data = <<>>
    /\ last_received = None
    /\ sigint = None
    /\ backup = None
    /\ call = None
    /\ returned = None

NextFetch ==
    \/ Startup
    \/ ComputeWindow
    \/ Submit
    \/ AsCompleted
    \/ Collect
    \/ Return
    \/ ExtendHistory
    \/ WriteHistory
    \/ WriteSnapshot
    \/ Advance
    \/ TaskStart
    \/ TaskFinish

SpecFetch == InitFetch /\ [][NextFetch]_vars

\* Runs without a termination signal, over two bracelets that answer or time
\* out and over the large registry with an unreachable endpoint.  The main
\* thread always takes its next step, an idle worker always takes a queued
\* work item, and every request ends (requests.get has timeout=10).
InitLive ==
    /\ pc = "main"
    /\ new_measurements = <<>>
    /\ exc = "none"
    /\ exit_code = None
    /\ clock = 0
    /\ session_name = "s1"
    /\ USE_FIXED_START = FALSE
    /\ \/ /\ bracelets_file = [ok |-> TRUE,
                               data |-> <<Entry("AA", "a", TRUE), Entry("BB", "b", TRUE)>>]
          /\ endpoint = {r \in Responses : r.kind = "timeout" \/ r.hr # <<>>}
       \/ /\ bracelets_file = LargeRegistry
          /\ endpoint = {r \in Responses : r.kind = "timeout"}
    /\ measurements_file = [ok |-> TRUE, data |-> <<>>]
    /\ td_data_file = [ok |-> TRUE, data |-> <<>>]
    /\ bracelets = <<>>
    /\ history = <<>>
    /\ current_start = None
    /\ cycle = 0
    /\ executor = "none"
    /\ pool = {}
    /\ submitted = 0
    /\ ready = <<>>
    /\ pending = {}
    /\ start_time = None
    /\ end_time = None
    /\ all_measurements = <<>>
    /\ td_data = <<>>
    /\ last_received = None
    /\ sigint = None
    /\ backup = None
    /\ call = None
    /\ returned = None

MainThread ==
    \/ Startup
    \/ ComputeWindow
    \/ Submit
    \/ AsCompleted
    \/ Collect
    \/ Return
    \/ ExtendHistory
    \/ WriteHistory
    \/ WriteSnapshot
    \/ Advance
    \/ Sleep
    \/ Finally
    \/ ShutdownWait
    \/ Fatal

NextLive ==
    \/ MainThread
    \/ TaskStart
    \/ TaskFinish

SpecLive ==
    /\ InitLive
    /\ [][NextLive]_vars
    /\ WF_vars(MainThread)
    /\ WF_vars(TaskStart)
    /\ WF_vars(TaskFinish)

\* ======================================================================
\* The sequential variant, src/backup/Main.py.  It uses the variables of the
\* same name; those it has no counterpart for keep their initial value.
parallel_only == <<current_start, executor, pool, ready, pending, start_time, end_time,
                   last_received, new_measurements>>

SeqEntry(id, name) == [swaid_id |-> id, name |-> name]

\* swaid_id "" stands for a missing or empty id.
SeqRegistryFiles ==
    { [ok |-> FALSE, data |-> <<>>],
      [ok |-> TRUE,  data |-> <<>>],
      [ok |-> TRUE,  data |-> <<SeqEntry("1330", "Bracelet 1330"), SeqEntry("", "no id"),
                                SeqEntry("34", "Bracelet 34")>>] }

SeqOldMeasurement == [timestamp |-> 0, hr |-> 60, si |-> 30, swaid_id |-> "1330"]

SeqHistoryFiles ==
    { [ok |-> FALSE, data |-> <<>>],
      [ok |-> TRUE,  data |-> <<>>],
      [ok |-> TRUE,  data |-> <<SeqOldMeasurement>>] }

\* A timestamp is the sequence of the parts of its text between the dots:
\* <<1, 500>> stands for "1.500", <<2>> for "2".
SeqResp(kind, hr, si, time) == [kind |-> kind, hr |-> hr, si |-> si, time |-> time]

SeqResponses ==
    { SeqResp("network_error", <<>>, <<>>, <<>>),
      SeqResp("bad_json", <<>>, <<>>, <<>>),
      SeqResp("status", <<>>, <<>>, <<>>),
      SeqResp("json", <<>>, <<>>, <<>>),
      SeqResp("json", <<70, 71>>, <<40, 41>>, << <<1, 500>>, <<2>> >>) }

SEQ_FILES == {"bracelets", "settings", "measurements", "td_data"}

\* fetch_data of Main.py: requests.get and response.json() are not guarded,
\* a status other than 200 gives the empty list.
seq_fetch_data(device_name, resp) ==
    IF resp.kind \in {"network_error", "bad_json"}
    THEN [raised |-> TRUE, measurements |-> <<>>]
    ELSE IF resp.kind = "status"
    THEN [raised |-> FALSE, measurements |-> <<>>]
    ELSE [raised |-> FALSE,
          measurements |->
              [i \in 1..MinOf({Len(resp.hr), Len(resp.si), Len(resp.time)}) |->
                  [timestamp |-> resp.time[i][1], hr |-> resp.hr[i], si |-> resp.si[i],
                   swaid_id |-> device_name]]]

\* backup_files of Main.py: one guarded copy per file, four files.
seq_backup_files(failed) ==
    [timestamp |-> clock,
     attempted |-> SEQ_FILES,
     copies |-> [f \in SEQ_FILES \ failed |->
                    CASE f = "bracelets" -> bracelets_file
                      [] f = "settings" -> [ok |-> TRUE, data |-> "settings"]
                      [] f = "measurements" -> measurements_file
                      [] f = "td_data" -> td_data_file]]

InitSeq ==
    /\ pc = "main"
    /\ new_measurements = <<>>
    /\ exc = "none"
    /\ exit_code = None
    /\ clock = 0
    /\ session_name = ""
    /\ USE_FIXED_START = FALSE
    /\ bracelets_file \in SeqRegistryFiles
    /\ endpoint = SeqResponses
    /\ measurements_file \in SeqHistoryFiles
    /\ td_data_file = [ok |-> TRUE, data |-> <<>>]
    /\ bracelets = <<>>
    /\ history = <<>>
    /\ current_start = None
    /\ cycle = 0
    /\ executor = "none"
    /\ pool = {}
    /\ submitted = 0
    /\ ready = <<>>
    /\ pending = {}
    /\ start_time = None
    /\ end_time = None
    /\ all_measurements = <<>>
    /\ td_data = <<>>
    /\ last_received = None
    /\ sigint = None
    /\ backup = None
    /\ call = None
    /\ returned = None

\* An exception nothing catches ends the process with a traceback and status 1.
SeqCrash ==
    /\ pc' = "exited"
    /\ exc' = "Exception"
    /\ exit_code' = Some(1)

\* main() of Main.py up to the loop.
SeqStartup ==
    /\ pc = "main"
    /\ IF ~bracelets_file.ok
       THEN SeqCrash /\ UNCHANGED <<bracelets, cycle>>
       ELSE IF bracelets_file.data = <<>>
       THEN /\ pc' = "exited"
            /\ exit_code' = Some(1)
            /\ UNCHANGED <<exc, bracelets, cycle>>
       ELSE /\ bracelets' = bracelets_file.data
            /\ cycle' = 1
            /\ pc' = "loop"
            /\ UNCHANGED <<exc, exit_code>>
    /\ UNCHANGED <<clock, config, files, history, submitted, all_measurements, td_data,
                   parallel_only, signal>>

\* Variant of SeqBeginCycle that keeps the snapshot of the cycle before.
SeqBeginCycle_keep_snapshot ==
    /\ pc = "loop"
    /\ all_measurements' = <<>>
    /\ td_data' = td_data
    /\ submitted' = 0
    /\ pc' = "fetch"
    /\ UNCHANGED <<exc, exit_code, clock, config, files, bracelets, history, cycle,
                   parallel_only, signal>>

\* Top of the while loop: all_measurements = [], td_data = {}.
SeqBeginCycle ==
    /\ pc = "loop"
    /\ all_measurements' = <<>>
    /\ td_data' = <<>>
    /\ submitted' = 0
    /\ pc' = "fetch"
    /\ UNCHANGED <<exc, exit_code, clock, config, files, bracelets, history, cycle,
                   parallel_only, signal>>

\* Body of the for loop for the next bracelet.
SeqFetch ==
    /\ pc = "fetch"
    /\ submitted < Len(bracelets)
    /\ LET device_id == bracelets[submitted + 1].swaid_id
       IN IF device_id = ""
          THEN /\ submitted' = submitted + 1
               /\ UNCHANGED <<pc, exc, exit_code, all_measurements, td_data>>
          ELSE \E resp \in endpoint :
                  LET out == seq_fetch_data(device_id, resp)
                      m == out.measurements
                  IN IF out.raised
                     THEN SeqCrash /\ UNCHANGED <<submitted, all_measurements, td_data>>
                     ELSE /\ submitted' = submitted + 1
                          /\ all_measurements' = all_measurements \o m
                          /\ td_data' =
                                IF m = <<>> THEN td_data
                                ELSE [d \in DOMAIN td_data \cup {device_id} |->
                                         IF d = device_id THEN m[Len(m)] ELSE td_data[d]]
                          /\ UNCHANGED <<pc, exc, exit_code>>
    /\ UNCHANGED <<clock, config, files, bracelets, history, cycle, parallel_only, signal>>

\* The history is read back from the file, [] if that fails, and extended.
SeqReadHistory ==
    /\ pc = "fetch"
    /\ submitted = Len(bracelets)
    /\ \E readable \in BOOLEAN :
          history' = (IF readable /\ measurements_file.ok
                      THEN measurements_file.data ELSE <<>>) \o all_measurements
    /\ pc' = "write_history"
    /\ UNCHANGED <<exc, exit_code, clock, config, files, bracelets, cycle, submitted,
                   all_measurements, td_data, parallel_only, signal>>

SeqWriteHistory ==
    /\ pc = "write_history"
    /\ \E outcome \in WriteOutcomes :
          /\ measurements_file' = Written(measurements_file, history, outcome)
          /\ IF outcome = "ok"
             THEN pc' = "write_td" /\ UNCHANGED <<exc, exit_code>>
             ELSE SeqCrash
    /\ UNCHANGED <<clock, config, td_data_file, bracelets, history, cycle, submitted,
                   all_measurements, td_data, parallel_only, signal>>

SeqWriteSnapshot ==
    /\ pc = "write_td"
    /\ \E outcome \in WriteOutcomes :
          /\ td_data_file' = Written(td_data_file, td_data, outcome)
          /\ IF outcome = "ok"
             THEN pc' = "sleep" /\ UNCHANGED <<exc, exit_code>>
             ELSE SeqCrash
    /\ UNCHANGED <<clock, config, measurements_file, bracelets, history, cycle, submitted,
                   all_measurements, td_data, parallel_only, signal>>

\* time.sleep(FETCH_INTERVAL_SECONDS) runs to its end.
SeqSleep ==
    /\ pc = "sleep"
    /\ cycle < MaxCycles
    /\ cycle' = cycle + 1
    /\ pc' = "loop"
    /\ UNCHANGED <<exc, exit_code, clock, config, files, bracelets, history, submitted,
                   all_measurements, td_data, parallel_only, signal>>

\* signal_handler of Main.py: backup_files(), sys.exit(0).
seq_signal_handler ==
    /\ sigint = None
    /\ exit_code = None
    /\ \E failed \in SUBSET SEQ_FILES : backup' = Some(seq_backup_files(failed))
    /\ sigint' = Some([time |-> clock, at |-> pc])
    /\ exc' = "SystemExit"
    /\ pc' = "exited"
    /\ exit_code' = Some(0)
    /\ UNCHANGED <<clock, config, files, bracelets, history, cycle, submitted,
                   all_measurements, td_data, parallel_only>>

NextSeq ==
    \/ SeqStartup
    \/ SeqBeginCycle
    \/ SeqFetch
    \/ SeqReadHistory
    \/ SeqWriteHistory
    \/ SeqWriteSnapshot
    \/ SeqSleep
    \/ seq_signal_handler

SpecSeq == InitSeq /\ [][NextSeq]_vars

\* ======================================================================
\* The display tools.  src/td_process.py turns the registry and the snapshot
\* into a table, src/tui_data_view0.py colours the values.  Their functions
\* are pure: each is modelled as an operator, and a specification draws the
\* arguments of one call from a bounded set and applies the function to them.
\* Text is a sequence of one-character strings; Returns and Raises are the two
\* ways a call ends.
\* ======================================================================
Returns(x) == [raised |-> "none", value |-> x]
Raises(e) == [raised |-> e, value |-> <<>>]

\* The collector is not running while a tool is called.
collector == <<pc, exc, exit_code, clock, session_name, USE_FIXED_START, bracelets_file,
               measurements_file, td_data_file, endpoint, bracelets, history, current_start,
               cycle, executor, pool, submitted, ready, pending, start_time, end_time,
               all_measurements, td_data, last_received, new_measurements, sigint, backup>>

CollectorIdle ==
    /\ pc = "tool"
    /\ new_measurements = <<>>
    /\ exc = "none"
    /\ exit_code = None
    /\ clock = 0
    /\ session_name = ""
    /\ USE_FIXED_START = FALSE
    /\ bracelets_file = [ok |-> TRUE, data |-> <<>>]
    /\ endpoint = {}
    /\ measurements_file = [ok |-> TRUE, data |-> <<>>]
    /\ td_data_file = [ok |-> TRUE, data |-> <<>>]
    /\ bracelets = <<>>
    /\ history = <<>>
    /\ current_start = None
    /\ cycle = 0
    /\ executor = "none"
    /\ pool = {}
    /\ submitted = 0
    /\ ready = <<>>
    /\ pending = {}
    /\ start_time = None
    /\ end_time = None
    /\ all_measurements = <<>>
    /\ td_data = <<>>
    /\ last_received = None
    /\ sigint = None
    /\ backup = None

\* ------------------------------------------------------------ td_process.py
PARAMS == <<"hr", "lf_hf_ratio", "rmssd", "sdrr", "si">>

HexDigits == {"0", "1", "2", "3", "4", "5", "6", "7", "8", "9",
              "A", "B", "C", "D", "E", "F", "a", "b", "c", "d", "e", "f"}

\* str.upper() on one character, and on a text.
upper_char(c) ==
    CASE c = "a" -> "A" [] c = "b" -> "B" [] c = "c" -> "C" [] c = "d" -> "D"
      [] c = "e" -> "E" [] c = "f" -> "F" [] c = "g" -> "G" [] OTHER -> c
upper(s) == [i \in 1..Len(s) |-> upper_char(s[i])]

\* str.replace(old, new) for one-character old and new.
replace(s, old, new) == [i \in 1..Len(s) |-> IF s[i] = old THEN new ELSE s[i]]

\* MAC_PATTERN.match: six pairs of hexadecimal digits separated by ':' or
\* '-'; '$' also matches before a line feed that ends the text.
MAC_PATTERN(s) ==
    LET pairs(t) == /\ Len(t) = 17
                    /\ \A i \in 1..17 : IF i % 3 = 0 THEN t[i] \in {":", "-"}
                                                     ELSE t[i] \in HexDigits
    IN  \/ pairs(s)
        \/ Len(s) = 18 /\ s[18] = "\n" /\ pairs(SubSeq(s, 1, 17))

validate_mac_keep_separator(mac) ==
    LET m == upper(mac)
    IN  IF ~MAC_PATTERN(m) THEN Raises("ValueError") ELSE Returns(m)

validate_mac(mac) ==
    LET m == replace(upper(mac), "-", ":")
    IN  IF ~MAC_PATTERN(m) THEN Raises("ValueError") ELSE Returns(m)

\* A JSON value: a number, a text or null.  float() takes a number as it is,
\* reads a text of decimal digits, raises ValueError on any other modelled
\* text and TypeError on null.
Num(n) == [t |-> "num", v |-> n]
Str(s) == [t |-> "str", v |-> s]
Null == [t |-> "null"]

Digits == <<"0", "1", "2", "3", "4", "5", "6", "7", "8", "9">>
DigitValue(c) == (CHOOSE i \in 1..10 : Digits[i] = c) - 1

RECURSIVE Decimal(_)
Decimal(s) == IF s = <<>> THEN 0
              ELSE 10 * Decimal(SubSeq(s, 1, Len(s) - 1)) + DigitValue(s[Len(s)])

float(x) ==
    CASE x.t = "num" -> Returns(x.v)
      [] x.t = "str" -> IF x.v # <<>> /\ Range(x.v) \subseteq Range(Digits)
                        THEN Returns(Decimal(x.v))
                        ELSE Raises("ValueError")
      [] OTHER -> Raises("TypeError")

\* dict.get(key, default)
get(item, key, default) == IF key \in DOMAIN item THEN item[key] ELSE default

Device(mac, name, process) == [mac |-> upper(mac), name |-> name, process |-> process]

Measurement(device_mac, timestamp, values) ==
    [device_mac |-> upper(device_mac), timestamp |-> timestamp, values |-> values]

\* The body of the try of parse_devices for one item.
DeviceOf(item) ==
    IF "mac_address" \notin DOMAIN item THEN Raises("KeyError")
    ELSE LET mac == validate_mac(item.mac_address)
         IN  IF mac.raised # "none" THEN mac
             ELSE IF "name" \notin DOMAIN item THEN Raises("KeyError")
             ELSE Returns(Device(mac.value, item.name, get(item, "process", FALSE)))

\* The body of the try of parse_measurements for one item; the arguments of
\* Measurement are evaluated in the order they are written.
MeasurementOf(item) ==
    IF "device_mac" \notin DOMAIN item THEN Raises("KeyError")
    ELSE LET mac == validate_mac(item.device_mac)
         IN  IF mac.raised # "none" THEN mac
             ELSE IF "timestamp" \notin DOMAIN item THEN Raises("KeyError")
             ELSE LET conv == [i \in 1..Len(PARAMS) |-> float(get(item, PARAMS[i], Num(0)))]
                      bad == {i \in 1..Len(PARAMS) : conv[i].raised # "none"}
                  IN  IF bad # {} THEN conv[MinOf(bad)]
                      ELSE Returns(Measurement(mac.value, item.timestamp,
                                   [p \in Range(PARAMS) |->
                                       conv[CHOOSE i \in 1..Len(PARAMS) : PARAMS[i] = p].value]))

\* The loop of a parser over the parsed JSON list, given how the try of each
\* item ended: an item whose try raised one of the exceptions the except
\* clause names is left out, any other exception ends the call.
RECURSIVE ParseItems(_, _)
ParseItems(tries, caught) ==
    IF tries = <<>> THEN Returns(<<>>)
    ELSE LET r == Head(tries)
         IN  IF r.raised \in caught THEN ParseItems(Tail(tries), caught)
             ELSE IF r.raised # "none" THEN r
             ELSE LET rest == ParseItems(Tail(tries), caught)
                  IN  IF rest.raised # "none" THEN rest
                      ELSE Returns(<<r.value>> \o rest.value)

parse_devices(dvs) ==
    ParseItems([i \in 1..Len(dvs) |-> DeviceOf(dvs[i])], {"KeyError", "ValueError"})

parse_measurements(data) ==
    ParseItems([i \in 1..Len(data) |-> MeasurementOf(data[i])], {"KeyError", "ValueError"})

\* datetime.strptime(ts, "%Y-%m-%d %H:%M:%S").second: a timestamp is its
\* seconds field and whatever text follows it; text after the seconds does
\* not match the format.
strptime_second(ts) == IF ts.rest # <<>> THEN Raises("ValueError") ELSE Returns(ts.second)

\* f"{v:.1f}" of a whole number
format_1f(v) == [whole |-> v, tenths |-> 0]

\* The dictionary comprehension of update_output_table: the last processed
\* device of each address.
device_map(devices) ==
    LET at(mac) == {i \in 1..Len(devices) : devices[i].process /\ devices[i].mac = mac}
    IN  [mac \in {devices[i].mac : i \in {j \in 1..Len(devices) : devices[j].process}} |->
            devices[MaxOf(at(mac))]]

\* The loop of update_output_table over the measurements; a channel is the
\* pair of a device name and a parameter.
RECURSIVE channel_data(_, _, _)
channel_data(dmap, measurements, acc) ==
    IF measurements = <<>> THEN acc
    ELSE LET m == Head(measurements)
             sec == strptime_second(m.timestamp)
         IN  IF m.device_mac \notin DOMAIN dmap \/ sec.raised # "none"
             THEN channel_data(dmap, Tail(measurements), acc)
             ELSE LET device == dmap[m.device_mac]
                      channels == {<<device.name, p>> : p \in Range(PARAMS)}
                      row(c) == IF c \in DOMAIN acc THEN acc[c] ELSE [s \in 0..59 |-> 0]
                  IN  channel_data(dmap, Tail(measurements),
                          [c \in DOMAIN acc \cup channels |->
                              IF c \in channels
                              THEN [row(c) EXCEPT ![sec.value] = m.values[c[2]]]
                              ELSE acc[c]])

\* Device names of the inputs in sorted order; PARAMS is in sorted order, so
\* the channels sort by name and then by parameter.
DeviceNames == <<"d1", "d2">>
SortedChannels ==
    [k \in 1..(Len(DeviceNames) * Len(PARAMS)) |->
        <<DeviceNames[((k - 1) \div Len(PARAMS)) + 1], PARAMS[((k - 1) % Len(PARAMS)) + 1]>>]

\* The rows update_output_table puts into the table after the header.
update_output_table(devices, measurements) ==
    LET data == channel_data(device_map(devices), measurements, <<>>)
        present == SelectSeq(SortedChannels, LAMBDA c : c \in DOMAIN data)
    IN  [k \in 1..Len(present) |->
            [channel |-> present[k],
             values |-> [s \in 0..59 |-> format_1f(data[present[k]][s])]]]

\* process_data: any exception of the pipeline is printed and the table is
\* left as it was.
process_data(dvs, data) ==
    LET devices == parse_devices(dvs)
        measurements == parse_measurements(data)
    IN  IF devices.raised # "none" THEN [error |-> devices.raised, output_table |-> None]
        ELSE IF measurements.raised # "none"
             THEN [error |-> measurements.raised, output_table |-> None]
        ELSE [error |-> "none",
              output_table |-> Some(update_output_table(devices.value, measurements.value))]

\* ---------------------------------------------------- inputs of td_process
MaxItems == 3

\* Hardware addresses as twelve hexadecimal digits, and their spellings.
Addresses == {<<"A", "A", "B", "B", "C", "C", "D", "D", "E", "E", "F", "F">>,
              <<"0", "1", "2", "3", "4", "5", "6", "7", "8", "9", "A", "B">>}
OtherAddress == <<"1", "0", "2", "0", "3", "0", "4", "0", "5", "0", "6", "0">>
Cases == {"upper", "lower", "mixed"}
Separators == {<<":", ":", ":", ":", ":">>, <<"-", "-", "-", "-", "-">>,
               <<":", "-", ":", "-", ":">>, <<"-", ":", "-", ":", "-">>}

lower_char(c) ==
    CASE c = "A" -> "a" [] c = "B" -> "b" [] c = "C" -> "c" [] c = "D" -> "d"
      [] c = "E" -> "e" [] c = "F" -> "f" [] OTHER -> c

Spell(a, case, seps) ==
    [i \in 1..17 |->
        IF i % 3 = 0 THEN seps[i \div 3]
        ELSE LET k == i - (i \div 3)
             IN  IF case = "lower" \/ (case = "mixed" /\ k % 2 = 1)
                 THEN lower_char(a[k]) ELSE a[k]]

Spellings == {Spell(a, c, s) : a \in Addresses, c \in Cases, s \in Separators}

\* Texts that are no address (too short, a letter that is no digit, a wrong
\* separator, no separators), and an address followed by a line feed.
BadMacs == {<<"a", "a", ":", "b", "b", ":", "c", "c">>,
            <<"a", "g", ":", "b", "b", ":", "c", "c", ":", "d", "d", ":", "e", "e", ":", "f", "f">>,
            <<"a", "a", ".", "b", "b", ".", "c", "c", ".", "d", "d", ".", "e", "e", ".", "f", "f">>,
            <<"a", "a", "b", "b", "c", "c", "d", "d", "e", "e", "f", "f">>}
LineFeedMacs == {<<"a", "a", "-", "b", "b", "-", "c", "c", "-", "d", "d", "-", "e", "e", "-", "f", "f", "\n">>}
MacInputs == Spellings \cup BadMacs \cup LineFeedMacs

Timestamp(sec) == [second |-> sec, rest |-> <<>>]
FractionTimestamp(sec) == [second |-> sec, rest |-> <<".", "5">>]

\* Entries of a snapshot: a good one, and one for each way an entry can be bad.
ItemMac == CHOOSE m \in Spellings : m[1] = "a" /\ m[2] = "a" /\ m[3] = "-"
GoodItem == [device_mac |-> ItemMac, timestamp |-> Timestamp(5), hr |-> Num(70), si |-> Num(120)]
Items == {GoodItem,
          [device_mac |-> ItemMac, timestamp |-> Timestamp(6), hr |-> Str(<<"7", "1">>)],
          [device_mac |-> ItemMac, timestamp |-> Timestamp(7)],
          [timestamp |-> Timestamp(5), hr |-> Num(70)],
          [device_mac |-> ItemMac, hr |-> Num(70)],
          [device_mac |-> <<"a", "a", ":", "b", "b">>, timestamp |-> Timestamp(5), hr |-> Num(70)],
          [device_mac |-> ItemMac, timestamp |-> Timestamp(5), hr |-> Str(<<"n", "/", "a">>)],
          [device_mac |-> ItemMac, timestamp |-> Timestamp(5), hr |-> Null, si |-> Num(120)]}

ItemLists == UNION {[1..n -> Items] : n \in 0..MaxItems}

\* A registry of two devices, the first spelled mac, and a snapshot of two
\* entries, the first spelled device_mac.
Registry(mac, process) ==
    <<[mac_address |-> mac, name |-> "d1", process |-> process],
      [mac_address |-> Spell(OtherAddress, "lower", <<"-", "-", "-", "-", "-">>), name |-> "d2",
       process |-> TRUE]>>
Snapshot(device_mac, ts) ==
    <<[device_mac |-> device_mac, timestamp |-> ts, hr |-> Num(70)],
      [device_mac |-> Spell(OtherAddress, "upper", <<":", ":", ":", ":", ":">>),
       timestamp |-> Timestamp(7), hr |-> Num(80)]>>

TdCalls ==
    {[fn |-> "validate_mac", mac |-> m] : m \in MacInputs}
    \cup {[fn |-> "parse_measurements", data |-> d] : d \in ItemLists}
    \cup {[fn |-> "process_data", dvs |-> Registry(m, p), data |-> Snapshot(dm, Timestamp(5))] :
              m \in MacInputs, dm \in MacInputs, p \in BOOLEAN}
    \cup {[fn |-> "process_data", dvs |-> Registry(ItemMac, TRUE), data |-> d] :
              d \in {Snapshot(ItemMac, FractionTimestamp(5))}
                    \cup {l \in ItemLists : Len(l) <= 2}}

InitTd ==
    /\ CollectorIdle
    /\ call \in {Some(c) : c \in TdCalls}
    /\ returned = None

ValidateMac ==
    /\ returned = None
    /\ Val(call).fn = "validate_mac"
    /\ returned' = Some(validate_mac(Val(call).mac))
    /\ UNCHANGED <<collector, call>>

ParseMeasurements ==
    /\ returned = None
    /\ Val(call).fn = "parse_measurements"
    /\ returned' = Some(parse_measurements(Val(call).data))
    /\ UNCHANGED <<collector, call>>

ProcessData ==
    /\ returned = None
    /\ Val(call).fn = "process_data"
    /\ returned' = Some(process_data(Val(call).dvs, Val(call).data))
    /\ UNCHANGED <<collector, call>>

NextTd ==
    \/ ValidateMac
    \/ ParseMeasurements
    \/ ProcessData

SpecTd == InitTd /\ [][NextTd]_vars

\* -------------------------------------------------------- tui_data_view0.py
MaxValue == 110

\* get_color_for_param: None for a value float() does not take and for a
\* parameter without thresholds, else the colour of the band the value is in.
get_color_for_param(param, value) ==
    LET conv == float(value)
        val == conv.value
    IN  IF conv.raised \in {"ValueError", "TypeError"} THEN None
        ELSE CASE param = "HR" ->
                    IF val < 60 THEN Some("blue")
                    ELSE IF 60 <= val /\ val <= 100 THEN Some("green")
                    ELSE Some("red")
               [] param = "LF/HF" ->
                    IF val < 1 THEN Some("green")
                    ELSE IF 1 <= val /\ val <= 2 THEN Some("yellow")
                    ELSE Some("red")
               [] param = "RMSSD" ->
                    IF val < 35 THEN Some("red")
                    ELSE IF 35 <= val /\ val < 50 THEN Some("yellow")
                    ELSE Some("green")
               [] param = "SDRR" ->
                    IF val < 50 THEN Some("red")
                    ELSE IF 50 <= val /\ val < 100 THEN Some("yellow")
                    ELSE Some("green")
               [] param = "SI" ->
                    IF val < 150 THEN Some("green")
                    ELSE IF 150 <= val /\ val < 500 THEN Some("yellow")
                    ELSE Some("red")
               [] OTHER -> None

\* Parameters of the view and one it has no thresholds for; whole values
\* around every threshold, a text of digits, a text that is no number, null.
ViewParams == {"HR", "LF/HF", "RMSSD", "SDRR", "SI"}
ViewValues ==
    {Num(n) : n \in 0..MaxValue \cup {149, 150, 151, 499, 500, 501}}
    \cup {Str(<<"2", "5">>), Str(<<"n", "/", "a">>), Null}

ViewCalls ==
    {[fn |-> "get_color_for_param", param |-> p, value |-> v] :
        p \in ViewParams \cup {"TEMP"}, v \in ViewValues}

InitView ==
    /\ CollectorIdle
    /\ call \in {Some(c) : c \in ViewCalls}
    /\ returned = None

GetColorForParam ==
    /\ returned = None
    /\ Val(call).fn = "get_color_for_param"
    /\ returned' = Some(get_color_for_param(Val(call).param, Val(call).value))
    /\ UNCHANGED <<collector, call>>

NextView == GetColorForParam

SpecView == InitView /\ [][NextView]_vars

\* ======================================================================
\* Properties
\* ======================================================================
IsPrefix(a, b) == Len(a) <= Len(b) /\ SubSeq(b, 1, Len(a)) = a
Macs(ms) == {ms[i].device_mac : i \in 1..Len(ms)}
LastOf(mac, ms) == ms[MaxOf({i \in 1..Len(ms) : ms[i].device_mac = mac})]

\* C1: the in-memory history only grows by appending: after startup it
\* changes only in the extend step of save_data, where it becomes the old
\* history followed by all of the cycle's measurements, so that every earlier
\* entry keeps its position and the length grows by the cycle's count.
C1_HistoryAppendOnly ==
    [][ /\ IsPrefix(history, history')
        /\ history' # history =>
              \/ pc = "main"
              \/ pc = "save_extend" /\ history' = history \o new_measurements
        /\ (pc = "save_extend" /\ pc' \in {"save_history", "save_td"}) =>
              history' = history \o new_measurements ]_vars

\* Two cycles with overlapping windows have appended the same two samples
\* after the entry loaded at startup.
C1_Witness ==
    /\ cycle = 2
    /\ pc = "save_history"
    /\ Len(history) = 5
    /\ history[1] = OldMeasurement
    /\ history[2] = history[4]
    /\ history[3] = history[5]

\* C2: the snapshot written at the end of a cycle holds exactly one entry per
\* device that produced measurements in the cycle, that device's last one.
C2_SnapshotOnePerDevice ==
    pc = "advance" =>
        LET snap == td_data_file.data
        IN /\ Len(snap) = Cardinality(Macs(new_measurements))
           /\ \A mac \in Macs(new_measurements) :
                 \E i \in 1..Len(snap) : snap[i] = LastOf(mac, new_measurements)

\* C3: fetch_and_process_data has returned, and save_data runs, only when no
\* task of the pool is queued or running any more.
C3_PersistAfterAllOutcomes ==
    pc \in {"return", "save_extend", "save_history", "save_td", "advance"} => Active = {}

\* The second bracelet answered before the first one did, and the cycle is
\* persisting the measurements of both.
C3_Witness ==
    /\ pc = "save_td"
    /\ Len(new_measurements) = 4
    /\ new_measurements[1].device_mac = "BB"
    /\ new_measurements[3].device_mac = "AA"
    /\ measurements_file.data = history

\* C4: a bracelet whose fetch failed or raised does not keep the others from
\* being collected: when the loop ends every future of the cycle has been
\* collected and the measurements of every task that returned some are in
\* the cycle's list, and collecting never ends the cycle or the process.
Block(ms, all) == \E k \in 0..(Len(all) - Len(ms)) : SubSeq(all, k + 1, k + Len(ms)) = ms

C4_FailureIsolated ==
    /\ [](pc = "return" =>
            /\ {w.idx : w \in {v \in pool : v.st = "collected" /\ v.cycle = cycle}}
                  = 1..Len(bracelets)
            /\ \A w \in pool : ~Val(w.result).raised =>
                  Block(Val(w.result).measurements, all_measurements))
    /\ [][(pc = "collect" /\ sigint' = sigint) =>
            /\ pc' \in {"collect", "return"}
            /\ exc' = "none"
            /\ exit_code' = None]_vars

\* The task of one bracelet raised and the two measurements of the other one
\* are in the cycle's list when the loop ends.
C4_Witness ==
    /\ pc = "return"
    /\ \E w \in pool : Val(w.result).raised
    /\ \E w \in pool : Val(w.result).measurements # <<>>
    /\ Len(all_measurements) = 2

\* C5: cycles do not overlap: the main thread walks window, dispatch,
\* collect, persist, sleep in this order, the cycle number moves only at the
\* end of the sleep, tasks are submitted only while dispatching, and every
\* work item in the pool belongs to the cycle in progress.
CycleOrder ==
    { <<"window", "dispatch">>, <<"dispatch", "as_completed">>,
      <<"as_completed", "collect">>, <<"as_completed", "return">>,
      <<"collect", "return">>, <<"return", "save_extend">>,
      <<"save_extend", "save_history">>, <<"save_extend", "save_td">>,
      <<"save_history", "save_td">>, <<"save_td", "advance">>,
      <<"advance", "sleep">>, <<"sleep", "window">> }

C5_CyclesSequential ==
    /\ [](\A w \in pool : w.cycle = cycle)
    /\ [][ /\ (pc # "main" /\ exc' = "none" /\ pc' # pc) => <<pc, pc'>> \in CycleOrder
           /\ (pc # "main" /\ cycle' # cycle) =>
                 pc = "sleep" /\ pc' = "window" /\ cycle' = cycle + 1
           /\ (\E w \in pool' \ pool : w.st = "queued") =>
                 pc = "dispatch" /\ \A w \in pool' : w.cycle = cycle ]_vars

\* The second cycle is collecting with a task still in the pool, after the
\* first cycle has written both files.
C5_Witness ==
    /\ cycle = 2
    /\ pc = "collect"
    /\ Active # {}
    /\ history # <<>>
    /\ measurements_file.data = history
    /\ td_data_file.data # <<>>

\* C6: SIGINT during the inter-cycle sleep ends the sleep before the interval
\* is over, backup_files attempts a copy of each of the three files with a
\* timestamp not earlier than the signal, and the process exits with status 0
\* without waiting any longer.
C6_SignalDuringSleep ==
    /\ [][(sigint = None /\ sigint' # None /\ pc = "sleep") =>
            /\ pc' = "finally"
            /\ clock' < clock + FETCH_INTERVAL_SEC
            /\ cycle' = cycle
            /\ backup' # None
            /\ Val(backup').attempted = FILES
            /\ Val(backup').timestamp >= Val(sigint').time]_vars
    /\ []((pc = "exited" /\ sigint # None /\ Val(sigint).at = "sleep") =>
            /\ exit_code = Some(0)
            /\ clock = Val(sigint).time)

\* The process has exited with status 0 after a SIGINT that came three time
\* units into the sleep of the first cycle; all three copies were made.
C6_Witness ==
    /\ pc = "exited"
    /\ exit_code = Some(0)
    /\ sigint # None
    /\ Val(sigint).at = "sleep"
    /\ cycle = 1
    /\ Val(sigint).time = Len(bracelets) + 3
    /\ backup # None
    /\ DOMAIN Val(backup).copies = FILES
    /\ Val(backup).copies["measurements"] = measurements_file
    /\ history # <<>>

\* C7: a termination signal is acted on only between cycles or in the sleep,
\* never while the cycle is dispatching, collecting or persisting.
C7_SignalOnlyBetweenCycles ==
    sigint # None =>
        Val(sigint).at \notin {"dispatch", "as_completed", "collect", "return",
                               "save_extend", "save_history", "save_td"}

\* C8: when the process exits after a termination signal, no task has
\* returned measurements that were never collected into the history.
C8_NoResultLostOnShutdown ==
    (pc = "exited" /\ sigint # None) =>
        \A w \in pool : w.st = "done" => Val(w.result).measurements = <<>>

\* C9: once the pool exists the process does not exit while a work item is
\* queued or running, and no work item is taken out of the pool before it
\* has run.
C9_NoExitWhileTaskRuns ==
    /\ []((pc = "exited" /\ executor # "none") => Active = {})
    /\ [][\A w \in Active : \E v \in pool' : v.cycle = w.cycle /\ v.idx = w.idx]_vars

\* The process has exited after a SIGINT that came while one task was running
\* and the other was queued or running; both have run to their end.
C9_Witness ==
    /\ pc = "exited"
    /\ sigint # None
    /\ Val(sigint).at \in {"dispatch", "as_completed", "collect"}
    /\ Cardinality({w \in pool : w.st = "done"}) = 2
    /\ executor = "shutdown"

\* C10: after a termination signal in the loop the pool's shutdown is
\* requested only when the backup has been made, and the process exits only
\* when the pool has been shut down and drained.
C10_BackupThenDrainThenExit ==
    [][ /\ (executor = "open" /\ executor' = "shutdown" /\ sigint # None) =>
              /\ backup # None
              /\ Val(backup).timestamp <= clock
        /\ (exit_code = None /\ exit_code' # None /\ sigint # None
              /\ Val(sigint).at \notin {"main", "finally", "shutdown_wait", "fatal"}) =>
              /\ backup # None
              /\ executor = "shutdown"
              /\ Active = {} ]_vars

\* The backup is made and the pool, asked to shut down, still has a task to
\* drain.
C10_Witness ==
    /\ pc = "shutdown_wait"
    /\ sigint # None
    /\ backup # None
    /\ executor = "shutdown"
    /\ Active # {}

\* C11: once the signal has been handled the cycle number does not move, the
\* main thread is never again at a statement of the loop and no work item is
\* added to the pool; the executor is created once, at startup, shut down at
\* most once, and receives no work item after its shutdown was requested.
NewItems == {w \in pool' \ pool : w.st = "queued"}

C11_NoCycleAfterSignal ==
    [][ /\ sigint # None =>
              /\ cycle' = cycle
              /\ NewItems = {}
              /\ pc' \in {"finally", "shutdown_wait", "fatal", "finalize", "exited"}
        /\ executor = "shutdown" => NewItems = {}
        /\ executor' # executor =>
              \/ executor = "none" /\ executor' = "open" /\ pc = "main"
              \/ executor = "open" /\ executor' = "shutdown" /\ pc = "finally" ]_vars

\* The signal came when one of two bracelets had been submitted: the process
\* has exited and the second bracelet never got a task.
C11_Witness ==
    /\ pc = "exited"
    /\ sigint # None
    /\ Val(sigint).at = "dispatch"
    /\ Len(bracelets) = 2
    /\ Cardinality(pool) = 1
    /\ executor = "shutdown"
    /\ cycle = 1

\* C12: every window is TIME_FETCH_SEC long with end after start, and in
\* relative mode its end is the clock read when the cycle computes it.
C12_WindowSpan ==
    /\ [](start_time # None =>
            /\ Val(end_time) > Val(start_time)
            /\ Val(end_time) - Val(start_time) = TIME_FETCH_SEC)
    /\ [][(pc = "window" /\ pc' = "dispatch" /\ ~USE_FIXED_START) =>
            /\ end_time' = Some(clock)
            /\ start_time' = Some(clock - TIME_FETCH_SEC)]_vars

\* The second cycle of a run in relative mode has computed its window.
C12_Witness ==
    /\ cycle = 2
    /\ pc = "dispatch"
    /\ ~USE_FIXED_START
    /\ end_time = Some(clock)
    /\ start_time = Some(clock - TIME_FETCH_SEC)
    /\ clock > FETCH_INTERVAL_SEC

\* C13: in fixed mode the window of a cycle starts TIME_FETCH_SEC after the
\* window of the cycle before it, it is taken from current_start and not from
\* the clock, and current_start is never None during the run.
C13_FixedAdvance ==
    /\ [][(USE_FIXED_START /\ pc = "window" /\ pc' = "dispatch") =>
            /\ start_time' = current_start
            /\ cycle > 1 => Val(start_time') = Val(start_time) + TIME_FETCH_SEC]_vars
    /\ []((USE_FIXED_START /\ executor # "none") => current_start # None)

\* The second cycle of a run in fixed mode is collecting, some time after
\* the start of the run.
C13_Witness ==
    /\ USE_FIXED_START
    /\ cycle = 2
    /\ pc = "collect"
    /\ start_time = Some(FIXED_START + TIME_FETCH_SEC)
    /\ clock > FETCH_INTERVAL_SEC

\* C14 as stated: in fixed mode the first window starts TIME_FETCH_SEC after
\* FIXED_START.
C14_FirstWindowAfterSeed ==
    (USE_FIXED_START /\ cycle = 1 /\ start_time # None) =>
        /\ Val(start_time) = FIXED_START + TIME_FETCH_SEC
        /\ Val(end_time) = Val(start_time) + TIME_FETCH_SEC

\* C14 as amended: in fixed mode the first window starts at FIXED_START
\* itself and ends TIME_FETCH_SEC later.
C14_FirstWindowAtSeed ==
    (USE_FIXED_START /\ cycle = 1 /\ start_time # None) =>
        /\ Val(start_time) = FIXED_START
        /\ Val(end_time) = FIXED_START + TIME_FETCH_SEC

\* The first cycle of a run in fixed mode has computed its window.
C14_Witness ==
    /\ USE_FIXED_START
    /\ cycle = 1
    /\ pc = "dispatch"
    /\ start_time = Some(FIXED_START)

\* C15: with a registry that cannot be read, or that has no entry with an
\* address and process = True, the executor is never created, no work item
\* exists, no file is written, and main ends the process with status 1.
Eligible(b) == b.mac_address # "" /\ b.process = TRUE

BadRegistry ==
    \/ ~bracelets_file.ok
    \/ \A j \in 1..Len(bracelets_file.data) : ~Eligible(bracelets_file.data[j])

C15_BadRegistryFatal ==
    /\ [](BadRegistry =>
            /\ executor = "none"
            /\ pool = {}
            /\ bracelets = <<>>
            /\ td_data_file = [ok |-> TRUE, data |-> <<>>])
    /\ [][BadRegistry => files' = files]_vars
    /\ [][(BadRegistry /\ pc = "main" /\ sigint' = sigint /\ pc' # pc) =>
            /\ pc' = "exited"
            /\ exit_code' = Some(1)]_vars

\* A registry whose two entries are both filtered out has ended the process
\* with status 1 before the pool existed.
C15_Witness ==
    /\ pc = "exited"
    /\ exit_code = Some(1)
    /\ session_name # ""
    /\ bracelets_file.ok
    /\ Len(bracelets_file.data) = 2
    /\ executor = "none"
    /\ sigint = None

\* C16: whenever the process has exited with a non-zero status, backup_files
\* has been run.
C16_BackupBeforeFatalExit ==
    (pc = "exited" /\ exit_code # None /\ Val(exit_code) # 0) => backup # None

\* C17: a write of the history or snapshot file that fails does not end the
\* loop: the main thread goes on to the next step of the cycle.
C17_WriteFailureRecovered ==
    [][(pc \in {"save_history", "save_td"} /\ sigint' = sigint /\ pc' # pc) =>
          /\ pc' \in {"save_td", "advance"}
          /\ exc' = "none"]_vars

\* C18: no work item is ever submitted for a registry entry without an
\* address, so fetch_data never runs its no-MAC branch, and no measurement of
\* the cycle or of the history carries an empty address.
C18_NoMacExcluded ==
    /\ [](\A w \in pool : bracelets[w.idx].mac_address # "")
    /\ [](\A i \in 1..Len(all_measurements) : all_measurements[i].device_mac # "")
    /\ [](\A i \in 1..Len(history) : history[i].device_mac # "")

\* The registry file has an entry without an address between two enabled
\* bracelets; both of these have a work item and the entry has none.
C18_Witness ==
    /\ pc = "collect"
    /\ Len(bracelets_file.data) = 4
    /\ bracelets_file.data[2].mac_address = ""
    /\ Cardinality(pool) = 2
    /\ all_measurements # <<>>

\* C19: when the tasks of a cycle have been submitted the pool holds exactly
\* one work item for each registry entry with an address and process = True
\* and none for any other entry, and a work item never goes back to an
\* earlier stage: a request that failed is not made again.
Rank(st) ==
    CASE st = "queued" -> 1
      [] st = "running" -> 2
      [] st = "done" -> 3
      [] st = "collected" -> 4

C19_OneTaskPerDevice ==
    /\ [](pc \in {"as_completed", "collect", "return"} =>
            /\ Cardinality(pool) = Len(SelectSeq(bracelets_file.data, Eligible))
            /\ \A j \in 1..Len(bracelets_file.data) :
                  LET b == bracelets_file.data[j]
                  IN Cardinality({w \in pool : bracelets[w.idx] = b})
                        = IF Eligible(b) THEN 1 ELSE 0)
    /\ [][\A w \in pool : \A v \in pool' :
            (v.cycle = w.cycle /\ v.idx = w.idx) => Rank(v.st) >= Rank(w.st)]_vars

\* Both bracelets of the four-entry registry have been collected, and the
\* request of one of them had timed out.
C19_Witness ==
    /\ pc = "return"
    /\ Len(bracelets_file.data) = 4
    /\ Cardinality(pool) = 2
    /\ \E w \in pool : ~Val(w.result).raised /\ Val(w.result).req_end = None
    /\ \E w \in pool : Val(w.result).measurements # <<>>

\* C20: the number of fetch tasks running at the same time never exceeds the
\* smaller of the number of loaded bracelets and MAX_POOL_WORKERS.
C20_ConcurrencyCap ==
    Cardinality(Running) <=
        (IF Len(bracelets) < MAX_POOL_WORKERS THEN Len(bracelets) ELSE MAX_POOL_WORKERS)

\* Seven bracelets are dispatched: six tasks run and the seventh waits in the
\* queue.
C20_Witness ==
    /\ Len(bracelets) = MAX_POOL_WORKERS + 1
    /\ Cardinality(Running) = MAX_POOL_WORKERS
    /\ \E w \in pool : w.st = "queued"

\* The futures of the cycle the loop has consumed, and the times at which the
\* server answered them.
CycleResults == {w \in pool : w.cycle = cycle /\ w.st = "collected"}

Heard ==
    {Val(Val(w.result).req_end) :
        w \in {v \in CycleResults : ~Val(v.result).raised /\ Val(v.result).req_end # None}}

ReturnStep == pc = "return" /\ pc' = "save_extend"

\* C21 as stated: whenever every request of the cycle ends in a transport or
\* decode failure, the last-response time returned is the end of the window.
C21_FallbackOnAnyFailure ==
    [][(/\ ReturnStep
        /\ CycleResults # {}
        /\ \A r \in endpoint : r.kind \in {"timeout", "http_error", "bad_json"})
            => last_received' = end_time]_vars

\* C21 as amended: the last-response time returned is the end of the window
\* exactly when no request of the cycle was answered; otherwise it is the
\* latest time at which an answer arrived, and an answer with an HTTP error
\* status or an undecodable body is an answer.
C21_FallbackWhenNothingHeard ==
    [][ReturnStep =>
          /\ last_received' = IF Heard = {} THEN end_time ELSE Some(MaxOf(Heard))
          /\ (\A r \in endpoint : r.kind = "timeout") => last_received' = end_time
          /\ (/\ CycleResults # {}
              /\ \A r \in endpoint : r.kind \in {"http_error", "bad_json"})
                => /\ last_received' # end_time
                   /\ last_received' = last_received]_vars

\* The endpoint answers with a timeout or an HTTP error; both requests of
\* the cycle timed out and the window's end was returned.
C21_Witness ==
    /\ pc = "save_extend"
    /\ {r.kind : r \in endpoint} = {"timeout", "http_error"}
    /\ Len(bracelets) = 2
    /\ last_received # None
    /\ last_received = end_time

\* C24: a sentinel payload, and a payload whose five metric arrays are all
\* empty, give the same result: no measurement, no exception, a request-end
\* time, and no error logged; a cycle that got only such answers returns
\* the time of the last answer and nothing for the history.
EmptySuccess(r) ==
    /\ r.kind = "json"
    /\ \/ r.message = NO_DATA_MESSAGE
       \/ \A k \in METRIC_KEYS : r[k] = <<>>

C24_SentinelIsEmptySuccess ==
    /\ [](\A r \in endpoint : \A i \in 1..Len(bracelets) :
            EmptySuccess(r) =>
                LET out == fetch_data(session_name, bracelets[i], r, clock)
                IN /\ out.log # "error"
                   /\ out.ret = [raised |-> FALSE, measurements |-> <<>>,
                                 req_end |-> Some(clock)])
    /\ []((\A r \in endpoint : EmptySuccess(r)) =>
            \A w \in pool : w.result # None =>
                /\ ~Val(w.result).raised
                /\ Val(w.result).measurements = <<>>
                /\ Val(w.result).req_end # None)
    /\ [][(ReturnStep /\ CycleResults # {} /\ \A r \in endpoint : EmptySuccess(r)) =>
            /\ last_received # None
            /\ last_received' = last_received
            /\ new_measurements' = <<>>]_vars

\* The endpoint answers with the sentinel or with empty arrays; the cycle
\* has returned no measurement and the time of an answer.
C24_Witness ==
    /\ pc = "save_extend"
    /\ Cardinality(endpoint) = 2
    /\ \A r \in endpoint : EmptySuccess(r)
    /\ \E r \in endpoint : r.message = NO_DATA_MESSAGE
    /\ new_measurements = <<>>
    /\ last_received # None
    /\ last_received # end_time

\* C26: for a payload without the sentinel the measurements are as many as
\* the shortest of the six arrays is long, and measurement i carries element
\* i of each array.
NonSentinel(r) == r.kind = "json" /\ r.message # NO_DATA_MESSAGE

Lens(r) ==
    {Len(r.hr), Len(r.lf_hf_ratio), Len(r.rmssd), Len(r.sdrr), Len(r.si), Len(r.time)}

Zipped(ms, r, b) ==
    /\ Len(ms) \in Lens(r)
    /\ \A n \in Lens(r) : Len(ms) <= n
    /\ \A i \in 1..Len(ms) :
          /\ ms[i].hr = r.hr[i]
          /\ ms[i].lf_hf_ratio = r.lf_hf_ratio[i]
          /\ ms[i].rmssd = r.rmssd[i]
          /\ ms[i].sdrr = r.sdrr[i]
          /\ ms[i].si = r.si[i]
          /\ ms[i].timestamp = r.time[i]
          /\ ms[i].device_mac = b.mac_address

C26_ZipShortest ==
    /\ \A r \in endpoint : \A i \in 1..Len(bracelets) :
          NonSentinel(r) =>
              Zipped(fetch_data(session_name, bracelets[i], r, clock).ret.measurements,
                     r, bracelets[i])
    /\ \A w \in pool :
          (w.result # None /\ ~Val(w.result).raised) =>
              \E r \in endpoint :
                  IF NonSentinel(r)
                  THEN Zipped(Val(w.result).measurements, r, bracelets[w.idx])
                  ELSE Val(w.result).measurements = <<>>

\* The payload has two samples of every metric and one timestamp: the task
\* of bracelet BB has produced one measurement, made of the first elements.
C26_Witness ==
    /\ \E r \in endpoint :
          /\ endpoint = {r}
          /\ Len(r.hr) = 2
          /\ Len(r.time) = 1
    /\ \E w \in pool :
          /\ w.idx = 2
          /\ w.st = "done"
          /\ Len(Val(w.result).measurements) = 1
          /\ Val(w.result).measurements[1].hr = 70
          /\ Val(w.result).measurements[1].timestamp = 1

\* C22: the history file changes only in the write of a cycle that produced
\* measurements, a write that succeeds leaves the whole in-memory history in
\* it, and a cycle without measurements goes to the snapshot write with the
\* history and its file as they were.
C22_HistoryFileRewrite ==
    /\ [][measurements_file' # measurements_file =>
            pc = "save_history" /\ new_measurements # <<>>]_vars
    /\ [][(pc = "save_history" /\ pc' = "save_td") =>
            measurements_file' = [ok |-> TRUE, data |-> history]]_vars
    /\ [][(pc = "save_extend" /\ new_measurements = <<>> /\ sigint' = sigint) =>
            /\ pc' = "save_td"
            /\ history' = history
            /\ measurements_file' = measurements_file]_vars
    /\ []((pc \in {"save_td", "advance", "sleep"} /\ new_measurements # <<>>) =>
            measurements_file = [ok |-> TRUE, data |-> history])

\* The second cycle produced measurements too: the file holds the history of
\* both cycles.
C22_Witness ==
    /\ pc = "advance"
    /\ cycle = 2
    /\ new_measurements # <<>>
    /\ Len(history) > Len(new_measurements)
    /\ history[1] # OldMeasurement
    /\ measurements_file = [ok |-> TRUE, data |-> history]

\* C23: the snapshot file changes only in the snapshot write of a cycle, a
\* write that succeeds leaves exactly the snapshot of that cycle in it, and
\* once the cycle is over the file holds entries of no device other than
\* those that produced measurements in that cycle.
C23_SnapshotReplaced ==
    /\ [][td_data_file' # td_data_file => pc = "save_td"]_vars
    /\ [][(pc = "save_td" /\ pc' = "advance") =>
            td_data_file' = [ok |-> TRUE, data |-> td_data]]_vars
    /\ [][(pc = "save_extend" /\ sigint' = sigint) =>
            pc' \in {"save_history", "save_td"}]_vars
    /\ [](pc \in {"advance", "sleep"} =>
            /\ td_data_file.ok
            /\ Range(td_data_file.data) \subseteq Range(new_measurements)
            /\ Macs(td_data_file.data) = Macs(new_measurements))

\* Bracelet BB gave measurements in the first cycle and no device gave any
\* in the second: the snapshot file has been rewritten and is empty.
C23_Witness ==
    /\ pc = "advance"
    /\ cycle = 2
    /\ new_measurements = <<>>
    /\ \E i \in 1..Len(history) : history[i].device_mac = "BB"
    /\ td_data_file = [ok |-> TRUE, data |-> <<>>]

\* C25: every run of backup_files attempts the three artifacts whatever
\* copies fail, each copy it makes has the content of its source, and the
\* three source files are as they were.
FileContent(f) ==
    CASE f = "bracelets" -> bracelets_file
      [] f = "measurements" -> measurements_file
      [] f = "td_data" -> td_data_file

C25_BackupBestEffort ==
    /\ [](backup # None =>
            /\ Val(backup).attempted = FILES
            /\ DOMAIN Val(backup).copies \subseteq FILES)
    /\ [][backup' # backup =>
            /\ bracelets_file' = bracelets_file
            /\ files' = files
            /\ \A f \in DOMAIN Val(backup').copies :
                  Val(backup').copies[f] = FileContent(f)]_vars

\* The copy of the history file failed; the registry before it and the
\* snapshot after it were copied.
C25_Witness ==
    /\ backup # None
    /\ DOMAIN Val(backup).copies = {"bracelets", "td_data"}
    /\ Val(backup).copies["td_data"] = td_data_file
    /\ history # <<>>

\* C27 as stated: the blocks of the devices are in the order in which their
\* tasks completed.
MacOfItem(w) == bracelets[w.idx].mac_address

FirstOf(mac, ms) == MinOf({i \in 1..Len(ms) : ms[i].device_mac = mac})

Answered == {w \in CycleResults : ~Val(w.result).raised /\ Val(w.result).measurements # <<>>}

C27_CompletionOrder ==
    pc = "return" =>
        \A v \in Answered : \A w \in Answered :
            Val(Val(v.result).req_end) < Val(Val(w.result).req_end) =>
                FirstOf(MacOfItem(v), all_measurements) < FirstOf(MacOfItem(w), all_measurements)

\* C27 as amended: the list grows by the whole result of the future that
\* as_completed yields next, a task that finishes while the loop waits is
\* yielded after all those already waiting to be yielded, and at the end
\* each device's result is one contiguous block of the list in the order of
\* the response.
C27_YieldOrderBlocks ==
    /\ [][(pc = "collect" /\ all_measurements' # all_measurements /\ sigint' = sigint) =>
            all_measurements' =
                all_measurements \o Val(FutureOf(Head(ready)).result).measurements]_vars
    /\ [][\A w \in pool :
            (/\ pc = "collect"
             /\ w.cycle = cycle
             /\ w.st = "running"
             /\ \E v \in pool' : v.cycle = w.cycle /\ v.idx = w.idx /\ v.st = "done")
                => ready' = Append(ready, w.idx)]_vars
    /\ [](pc = "return" =>
            /\ \A w \in Answered : Block(Val(w.result).measurements, all_measurements)
            /\ \A i \in 1..Len(all_measurements) : \A k \in i..Len(all_measurements) :
                  all_measurements[i].device_mac = all_measurements[k].device_mac =>
                      \A j \in i..k :
                          all_measurements[j].device_mac = all_measurements[i].device_mac)

\* Bracelet BB, submitted second, finished first while the loop was waiting:
\* its block comes first.
C27_Witness ==
    /\ pc = "return"
    /\ Len(all_measurements) = 4
    /\ all_measurements[1].device_mac = "BB"
    /\ all_measurements[3].device_mac = "AA"
    /\ \E v \in Answered : \E w \in Answered :
          /\ v.idx = 2
          /\ w.idx = 1
          /\ Val(Val(v.result).req_end) < Val(Val(w.result).req_end)

\* C28 as stated: neither the history nor the snapshot list grows while a
\* task of the cycle is queued or running.
Unfinished == {w \in pool : w.cycle = cycle /\ w.st \in {"queued", "running"}}

C28_NoMutationWhileRunning ==
    [][(Len(history') > Len(history) \/ Len(td_data') > Len(td_data)) =>
          Unfinished = {}]_vars

\* C28 as amended: the history changes only at startup and in save_data,
\* when no task of the cycle is unfinished; the snapshot list grows only in
\* the as_completed loop of the main thread; a step of a worker task leaves
\* both, and the files, as they were.
WorkerStep ==
    /\ pc' = pc
    /\ sigint' = sigint
    /\ \E w \in pool : w.st \in {"queued", "running"} /\ w \notin pool'

C28_OnlyCoordinatorMutates ==
    /\ [][history' # history =>
            /\ pc \in {"main", "save_extend"}
            /\ Unfinished = {}]_vars
    /\ [][Len(td_data') > Len(td_data) =>
            /\ pc = "collect"
            /\ pc' \in {"collect", "return"}]_vars
    /\ [][WorkerStep =>
            /\ history' = history
            /\ td_data' = td_data
            /\ all_measurements' = all_measurements
            /\ files' = files]_vars

\* The loop has put the result of one bracelet in the snapshot list while
\* the request of the other is still running.
C28_Witness ==
    /\ pc = "collect"
    /\ td_data # <<>>
    /\ \E w \in Unfinished : w.st = "running"
    /\ history = <<>>

\* C29: when the loop has consumed every future of the cycle, the
\* measurements of each device in the list are those of its result, the
\* devices in the list and in the snapshot are those whose result is not
\* empty, and last_received is the latest request-end time of the results:
\* all three are determined by the results, whatever the order of the
\* futures was.
OfDevice(mac, ms) == SelectSeq(ms, LAMBDA m : m.device_mac = mac)

C29_OrderIndependent ==
    pc = "return" =>
        /\ \A w \in CycleResults :
              OfDevice(MacOfItem(w), all_measurements) =
                  IF Val(w.result).raised THEN <<>> ELSE Val(w.result).measurements
        /\ Macs(all_measurements) = {MacOfItem(w) : w \in Answered}
        /\ Macs(td_data) = {MacOfItem(w) : w \in Answered}
        /\ last_received = IF Heard = {} THEN None ELSE Some(MaxOf(Heard))

\* Bracelet AA answered after bracelet BB and was yielded before it: the
\* time returned is that of AA.
C29_Witness ==
    /\ pc = "return"
    /\ Cardinality(Answered) = 2
    /\ all_measurements[1].device_mac = "AA"
    /\ \E v \in Answered : \E w \in Answered :
          /\ v.idx = 1
          /\ w.idx = 2
          /\ Val(Val(v.result).req_end) > Val(Val(w.result).req_end)
          /\ last_received = Val(v.result).req_end

C31_BackupConsistent ==
    [][(/\ sigint' # sigint
        /\ {"measurements", "td_data"} \subseteq DOMAIN Val(backup').copies)
            => /\ ~(pc = "save_td" /\ new_measurements # <<>>)
               /\ LET h == Val(backup').copies["measurements"].data
                      t == Val(backup').copies["td_data"].data
                  IN t # <<>> =>
                        /\ Len(t) <= Len(h)
                        /\ SubSeq(h, Len(h) - Len(t) + 1, Len(h)) = t]_vars

\* C32: without a termination signal and with requests that all end, a
\* cycle that has started to dispatch reaches the sleep at its end.
C32_CycleReachesSleep == (pc = "dispatch") ~> (pc = "sleep")

\* C33: in the sequential variant the snapshot of a cycle maps exactly the
\* devices that gave measurements in this cycle to the last measurement
\* each of them gave, and the snapshot write leaves that map in the file.
SeqIds(ms) == {ms[i].swaid_id : i \in 1..Len(ms)}

SeqLastOf(id, ms) == ms[MaxOf({i \in 1..Len(ms) : ms[i].swaid_id = id})]

C33_SeqSnapshotLastPerDevice ==
    /\ [](pc \in {"fetch", "write_history", "write_td", "sleep"} =>
            /\ DOMAIN td_data = SeqIds(all_measurements)
            /\ \A d \in DOMAIN td_data : td_data[d] = SeqLastOf(d, all_measurements))
    /\ [][(pc = "write_td" /\ pc' = "sleep") =>
            td_data_file' = [ok |-> TRUE, data |-> td_data]]_vars
    /\ [](pc = "sleep" => td_data_file = [ok |-> TRUE, data |-> td_data])

\* Bracelet 1330 gave measurements in the first cycle and none in the
\* second, bracelet 34 gave two in the second: the snapshot has the last
\* measurement of 34 and nothing for 1330.
C33_Witness ==
    /\ pc = "sleep"
    /\ cycle = 2
    /\ DOMAIN td_data = {"34"}
    /\ td_data["34"].timestamp = 2
    /\ td_data["34"].hr = 71
    /\ Len(all_measurements) = 2
    /\ \E i \in 1..Len(history) : history[i].swaid_id = "1330" /\ history[i].hr = 71
    /\ td_data_file.data = td_data

\* C34: in the sequential variant a fetch that fails, in whatever way,
\* leaves the loop running: the main thread goes on to the next bracelet or
\* to the persist step.
C34_SeqFailureIsolated ==
    [][(pc = "fetch" /\ sigint' = sigint) =>
          /\ pc' \in {"fetch", "write_history"}
          /\ exit_code' = None]_vars

\* C35: in the sequential variant every rewrite of the history file leaves
\* its content before the cycle followed by the measurements of the cycle.
C35_SeqHistoryAppendOnly ==
    [][(/\ pc = "write_history"
        /\ measurements_file.ok
        /\ measurements_file'.ok)
            => measurements_file'.data = measurements_file.data \o all_measurements]_vars

\* An entry of a snapshot is valid when it has an address, a timestamp and,
\* for every metric it carries, a number or a text of digits.
ValidItem(item) ==
    /\ "device_mac" \in DOMAIN item
    /\ item.device_mac \in Spellings
    /\ "timestamp" \in DOMAIN item
    /\ \A p \in Range(PARAMS) \cap DOMAIN item :
          \/ item[p].t = "num"
          \/ item[p].t = "str" /\ item[p].v # <<>> /\ Range(item[p].v) \subseteq Range(Digits)

\* C36: parse_measurements handles errors per item: whatever invalid entries
\* the input holds (no device_mac, no timestamp, a malformed address, a
\* non-numeric or a null metric), the call returns, and it returns one
\* measurement for each valid entry of the input, in the order of the input.
C36_ParsePerItem ==
    (call # None /\ returned # None /\ Val(call).fn = "parse_measurements") =>
        LET good == SelectSeq(Val(call).data, ValidItem)
            r == Val(returned)
        IN  /\ r.raised = "none"
            /\ Len(r.value) = Len(good)
            /\ \A i \in 1..Len(good) : r.value[i].timestamp = good[i].timestamp

Canonical(a) == Spell(a, "upper", <<":", ":", ":", ":", ":">>)

\* C37: validate_mac is canonical and idempotent, and the table matches
\* addresses up to case and separator: every spelling of a hardware address
\* (any letter case, ':' or '-' between the pairs) normalises to the one
\* upper-case colon-separated spelling of that address; whatever validate_mac
\* returns, it returns again for its own result; and when the first device of
\* the registry is processed and the first entry of the snapshot carries a
\* spelling of the same address, the table has the rows of that device with
\* the entry's value in the column of its second.
C37_CanonicalMac ==
    (call # None /\ returned # None) =>
        LET c == Val(call)
            r == Val(returned)
        IN  /\ c.fn = "validate_mac" =>
                /\ \A a \in Addresses, cs \in Cases, s \in Separators :
                      c.mac = Spell(a, cs, s) => r = Returns(Canonical(a))
                /\ r.raised = "none" =>
                      /\ validate_mac(r.value) = r
                      /\ \A i \in 1..Len(r.value) :
                            r.value[i] # "-" /\ upper_char(r.value[i]) = r.value[i]
            /\ c.fn = "process_data" =>
                \A a \in Addresses, c1 \in Cases, s1 \in Separators,
                   c2 \in Cases, s2 \in Separators :
                    (/\ c.dvs = Registry(Spell(a, c1, s1), TRUE)
                     /\ c.data = Snapshot(Spell(a, c2, s2), Timestamp(5)))
                    => /\ r.output_table # None
                       /\ \E k \in 1..Len(Val(r.output_table)) :
                            /\ Val(r.output_table)[k].channel = <<"d1", "hr">>
                            /\ Val(r.output_table)[k].values[5] = format_1f(70)

\* A device spelled in lower case with dashes and an entry spelled in upper
\* case with colons were matched, and a spelling with dashes was normalised.
C37_Witness ==
    /\ call # None /\ returned # None
    /\ Val(call).fn = "process_data"
    /\ Val(call).dvs = Registry(Spell(CHOOSE a \in Addresses : a[1] = "A", "lower",
                                      <<"-", "-", "-", "-", "-">>), TRUE)
    /\ Val(call).data = Snapshot(Canonical(CHOOSE a \in Addresses : a[1] = "A"), Timestamp(5))
    /\ Val(returned).output_table # None
    /\ Len(Val(Val(returned).output_table)) = 2 * Len(PARAMS)

Band(colour, applies) == IF applies THEN {colour} ELSE {}

\* The threshold table of the docstring of get_color_for_param: the colours
\* it gives a value of a parameter (two where a closed band meets the next).
DocColours(param, v) ==
    CASE param = "HR" ->
            Band("blue", v < 60)
            \cup Band("green", 60 <= v /\ v <= 100)
            \cup Band("red", v > 100)
      [] param = "LF/HF" ->
            Band("green", v < 1)
            \cup Band("yellow", 1 <= v /\ v <= 2)
            \cup Band("red", v > 2)
      [] param = "RMSSD" ->
            Band("red", v < 20)
            \cup Band("yellow", 20 <= v /\ v <= 50)
            \cup Band("green", v >= 50)
      [] param = "SDRR" ->
            Band("red", v < 50)
            \cup Band("yellow", 50 <= v /\ v <= 100)
            \cup Band("green", v >= 100)
      [] param = "SI" ->
            Band("green", v < 50)
            \cup Band("yellow", 50 <= v /\ v <= 100)
            \cup Band("red", v >= 100)

\* C38: for each of the parameters HR, LF/HF, RMSSD, SDRR and SI and every
\* numeric value, get_color_for_param returns a colour, and it is the colour
\* the threshold table of its docstring gives that value.
C38_ColourAsDocumented ==
    (/\ call # None /\ returned # None
     /\ Val(call).fn = "get_color_for_param"
     /\ Val(call).param \in ViewParams
     /\ Val(call).value.t = "num")
    => /\ Val(returned) # None
       /\ Val(Val(returned)) \in DocColours(Val(call).param, Val(call).value.v)

====
